---------------------------- MODULE Spec2Model ----------------------------
(***************************************************************************)
(* Verification model of the procedural planet terrain pipeline.           *)
(*                                                                         *)
(* Six parts of the repository are modelled:                               *)
(*                                                                         *)
(*  1. The chunk entity FChunk and its owner FChunkManager                 *)
(*     (PlanetGen/Chunk/Chunk.h, ChunkState.h, ChunkManager.cpp).          *)
(*     Specifications SpecChunk and, with Update called again and again,   *)
(*     SpecChunkLive.                                                      *)
(*                                                                         *)
(*  2. The streaming controller ACubeSpherePlanet with its chunk actors    *)
(*     AVoxelChunk (CubeSpherePlanet.cpp, VoxelChunk.cpp): per-frame       *)
(*     LOD/streaming pass, spawn queue, background generation tasks with   *)
(*     their game-thread completion callbacks, and the mesh upload queue.  *)
(*     Specifications Spec and, with a scheduler, SpecLive.                *)
(*                                                                         *)
(*  3. The LOD pass on one chunk position. Specification SpecLOD.          *)
(*                                                                         *)
(*  4. The density generators from construction to sampling.               *)
(*     Specification SpecDensity.                                          *)
(*                                                                         *)
(*  5. The two marching cubes extractors on one edge and on one cell.      *)
(*     Specification SpecMesh.                                             *)
(*                                                                         *)
(*  6. FChunkId and its neighbour lookup. Specification SpecId.            *)
(*                                                                         *)
(* Lengths are in units of 10 world units (PlanetRadius 50000 -> 5000).   *)
(***************************************************************************)
EXTENDS Integers, Sequences, FiniteSets, TLC

(***************************************************************************)
(* Bounds of the model.                                                    *)
(***************************************************************************)
\* largest GenerationId an FChunk is driven to
MaxGenerationId == 2
\* FChunkIds known to the chunk manager have LOD 0..MaxChunkLOD
MaxChunkLOD == 0

(***************************************************************************)
(* Part 1: FChunk and FChunkManager                                        *)
(***************************************************************************)

VARIABLES
    Chunks,              \* FChunkManager::Chunks : FChunkId -> FChunk (NoChunk = no entry)
    TotalChunksCreated,  \* FChunkManager::TotalChunksCreated
    OwnerPlanetRadius,   \* OwnerPlanet->PlanetRadius, read by ComputeChunkTransform
    lastCall             \* the call executed by the last step: operation, arguments, error log

chunkVars == <<Chunks, TotalChunksCreated, OwnerPlanetRadius, lastCall>>

\* the state of ACubeSpherePlanet and its AVoxelChunk actors (Part 2)
VARIABLES
    observer,               \* GetObserverPosition().X
    phase,                  \* position inside Tick: "idle" between frames, "spawn", "upload"
    Config,                 \* ChunksToSpawnPerFrame, MaxConcurrentChunkGenerations, ChunksMeshUpdatesPerFrame
    ChunkInfos,             \* ACubeSpherePlanet::ChunkInfos
    ChunkSpawnQueue,        \* ACubeSpherePlanet::ChunkSpawnQueue (TArray<int32>)
    MeshUpdateQueue,        \* ACubeSpherePlanet::MeshUpdateQueue (TArray<AVoxelChunk*>)
    ActiveGenerationTasks,  \* ACubeSpherePlanet::ActiveGenerationTasks
    actors,                 \* slot -> fields of the living AVoxelChunk of the slot
    tasks,                  \* generation tasks of living actors whose game-thread callback has not run
    deadTasks,              \* number of such tasks whose actor was destroyed
    SpawnedThisFrame,       \* local of ProcessSpawnQueue
    ProcessedCount,         \* local of ProcessMeshUpdateQueue
    frame                   \* history of the running call: indices popped, entries removed, uploads made

planetVars == <<observer, phase, Config, ChunkInfos, ChunkSpawnQueue, MeshUpdateQueue,
                ActiveGenerationTasks, actors, tasks, deadTasks, SpawnedThisFrame,
                ProcessedCount, frame>>

\* one chunk position under the LOD pass, frame by frame (Part 3)
VARIABLES
    watched,                \* the ChunkInfos slot looked at
    bAutoLOD,               \* ACubeSpherePlanet::bAutoLOD
    lodObserver,            \* GetObserverPosition().X in the last frame
    ChunkInfo,              \* the slot's FChunkInfo: ActiveChunk (set or null), bPendingSpawn, LODLevel
    FarModelHidden,         \* FarPlanetModel's hidden flag
    lodFrame,               \* history of the last frame: the FChunkInfo before it
    oscillation             \* history of the frames in which the distance alternates around a boundary

lodVars == <<watched, bAutoLOD, lodObserver, ChunkInfo, FarModelHidden, lodFrame, oscillation>>

\* a density generator from its construction on (Part 4)
VARIABLES
    generator,              \* the generator constructed last: its class and the parameters it keeps
    given,                  \* history: the parameters its constructor was called with
    lastSample              \* history: the parameters its last SampleDensity call computed with

densityVars == <<generator, given, lastSample>>

\* the mesh extractors on one cell (Part 5)
VARIABLES
    interp,                 \* the last vertex interpolation call: extractor, arguments, result
    cell                    \* the last cell processed: extractor, corner densities, what was emitted

meshVars == <<interp, cell>>

\* one FChunkId::GetNeighbor call (Part 6)
VARIABLES
    neighbor                \* the call: the id it is made on, DeltaX, DeltaY, the id returned

idVars == <<neighbor>>

vars == <<chunkVars, planetVars, lodVars, densityVars, meshVars, idVars>>

\* EChunkState
EChunkState == {"Unloaded", "Requested", "Generating", "Ready", "Visible", "Unloading"}

\* IsValidStateTransition with a Visible chunk also allowed back to Ready
IsValidStateTransitionVisibleToReady(From, To) ==
    CASE From = "Unloaded"   -> To = "Requested"
      [] From = "Requested"  -> To = "Generating" \/ To = "Unloaded"
      [] From = "Generating" -> To = "Ready" \/ To = "Unloaded"
      [] From = "Ready"      -> To = "Visible" \/ To = "Unloading"
      [] From = "Visible"    -> To = "Unloading" \/ To = "Ready"
      [] From = "Unloading"  -> To = "Unloaded"
      [] OTHER               -> FALSE

\* ::IsValidStateTransition(From, To): the switch over From
IsValidStateTransition(From, To) ==
    CASE From = "Unloaded"   -> To = "Requested"
      [] From = "Requested"  -> To = "Generating" \/ To = "Unloaded"
      [] From = "Generating" -> To = "Ready" \/ To = "Unloaded"
      [] From = "Ready"      -> To = "Visible" \/ To = "Unloading"
      [] From = "Visible"    -> To = "Unloading"
      [] From = "Unloading"  -> To = "Unloaded"
      [] OTHER               -> FALSE

\* Values of TUniquePtr<FChunkMeshData>: no object, a mesh with vertices and
\* triangles, a mesh object with no vertices
MeshPayloads == {"null", "valid", "empty"}
\* Values of TWeakObjectPtr<UProceduralMeshComponent>
ProxyRefs == {"null", "proxy"}

NoChunk == [absent |-> TRUE]

\* FChunk(InId, InTransform): State = Unloaded, GenerationId = 0, MeshData(nullptr)
NewFChunk == [State |-> "Unloaded", GenerationId |-> 0, MeshData |-> "null", RenderProxy |-> "null"]

\* FChunkId values the manager is asked about (LOD is an int32 the caller
\* chooses: the main constructor stores any value, a negative one included)
ChunkIds == [CubeFace : {0}, X : {0}, Y : {0}, LOD : (-1)..MaxChunkLOD]

\* OwnerPlanet->PlanetRadius values (APlanet::PlanetRadius is an editable property)
PlanetRadii == {0, 10}

\* FChunkTransform::IsValid() without its test of the LOD
TransformIsValidIgnoringLOD(Id, Radius) ==
    /\ Id.CubeFace < 6
    /\ 2 * Radius > 0

\* FChunkTransform(PlanetCenter, PlanetRadius, Face, ChunkCoords, InLOD) followed
\* by FChunkTransform::IsValid(): CubeNormal is the unit normal of Face,
\* ChunkWorldSize = 2 * PlanetRadius / 2^LOD
TransformIsValid(Id, Radius) ==
    /\ Id.CubeFace < 6
    /\ 2 * Radius > 0
    /\ Id.LOD >= 0

NoCall == [op |-> "none"]

\* TransitionToState with the early return of the invalid branch missing
TransitionToStateUnchecked(c, NewState) ==
    [c EXCEPT !.State = NewState]

\* FChunk::TransitionToState(NewState): the resulting FChunk
TransitionToStateResult(c, NewState) ==
    IF ~IsValidStateTransition(c.State, NewState)
    THEN c
    ELSE [c EXCEPT !.State = NewState]

\* FChunk::TransitionToState(NewState) called by the owner on chunk id.
\* The function returns void; an invalid transition writes one error line.
TransitionToState(id, NewState) ==
    /\ Chunks[id] # NoChunk
    /\ Chunks' = [Chunks EXCEPT ![id] = TransitionToStateResult(Chunks[id], NewState)]
    /\ lastCall' = [op |-> "TransitionToState", id |-> id, before |-> Chunks[id],
                    from |-> Chunks[id].State, to |-> NewState, returned |-> "void",
                    errorLogged |-> ~IsValidStateTransition(Chunks[id].State, NewState)]
    /\ UNCHANGED <<TotalChunksCreated, OwnerPlanetRadius>>
    /\ UNCHANGED <<planetVars, lodVars, densityVars, meshVars, idVars>>

\* FChunk::IncrementGenerationId(): GenerationId++ (a uint32; the guard keeps
\* the counter far below the width, so the increment never wraps here)
IncrementGenerationId(id) ==
    /\ Chunks[id] # NoChunk
    /\ Chunks[id].GenerationId < MaxGenerationId
    /\ Chunks' = [Chunks EXCEPT ![id].GenerationId = @ + 1]
    /\ lastCall' = [op |-> "IncrementGenerationId", id |-> id]
    /\ UNCHANGED <<TotalChunksCreated, OwnerPlanetRadius>>
    /\ UNCHANGED <<planetVars, lodVars, densityVars, meshVars, idVars>>

\* FChunk::SetMeshData(NewMeshData)
SetMeshData(id, m) ==
    /\ Chunks[id] # NoChunk
    /\ Chunks' = [Chunks EXCEPT ![id].MeshData = m]
    /\ lastCall' = [op |-> "SetMeshData", id |-> id]
    /\ UNCHANGED <<TotalChunksCreated, OwnerPlanetRadius>>
    /\ UNCHANGED <<planetVars, lodVars, densityVars, meshVars, idVars>>

\* FChunk::ClearMeshData()
ClearMeshData(id) ==
    /\ Chunks[id] # NoChunk
    /\ Chunks' = [Chunks EXCEPT ![id].MeshData = "null"]
    /\ lastCall' = [op |-> "ClearMeshData", id |-> id]
    /\ UNCHANGED <<TotalChunksCreated, OwnerPlanetRadius>>
    /\ UNCHANGED <<planetVars, lodVars, densityVars, meshVars, idVars>>

\* FChunk::SetRenderProxy(NewProxy)
SetRenderProxy(id, p) ==
    /\ Chunks[id] # NoChunk
    /\ Chunks' = [Chunks EXCEPT ![id].RenderProxy = p]
    /\ lastCall' = [op |-> "SetRenderProxy", id |-> id]
    /\ UNCHANGED <<TotalChunksCreated, OwnerPlanetRadius>>
    /\ UNCHANGED <<planetVars, lodVars, densityVars, meshVars, idVars>>

\* FChunk::ClearRenderProxy()
ClearRenderProxy(id) ==
    /\ Chunks[id] # NoChunk
    /\ Chunks' = [Chunks EXCEPT ![id].RenderProxy = "null"]
    /\ lastCall' = [op |-> "ClearRenderProxy", id |-> id]
    /\ UNCHANGED <<TotalChunksCreated, OwnerPlanetRadius>>
    /\ UNCHANGED <<planetVars, lodVars, densityVars, meshVars, idVars>>

\* FChunkManager::CreateChunk(Id)
CreateChunk(id) ==
    /\ lastCall' = [op |-> "CreateChunk", id |-> id]
    /\ IF Chunks[id] # NoChunk
       THEN UNCHANGED <<Chunks, TotalChunksCreated>>
       ELSE IF ~TransformIsValid(id, OwnerPlanetRadius)
       THEN UNCHANGED <<Chunks, TotalChunksCreated>>
       ELSE /\ Chunks' = [Chunks EXCEPT ![id] = TransitionToStateResult(NewFChunk, "Requested")]
            /\ TotalChunksCreated' = TotalChunksCreated + 1
    /\ UNCHANGED OwnerPlanetRadius
    /\ UNCHANGED <<planetVars, lodVars, densityVars, meshVars, idVars>>

\* FChunkManager::GenerateChunkMesh(Chunk): empty body ("Step 4")
GenerateChunkMesh(c) == c

\* FChunkManager::AttachRenderProxy(Chunk): empty body ("Step 5")
AttachRenderProxy(c) == c

\* FChunkManager::Update(ViewContext): UpdateChunkSet (empty body), then the
\* switch over every chunk's State. The history record tells two successive
\* calls apart (tick alternates).
Update ==
    /\ Chunks' = [id \in ChunkIds |->
                    IF Chunks[id] = NoChunk THEN NoChunk
                    ELSE IF Chunks[id].State = "Requested" THEN GenerateChunkMesh(Chunks[id])
                    ELSE IF Chunks[id].State = "Ready" THEN AttachRenderProxy(Chunks[id])
                    ELSE Chunks[id]]
    /\ lastCall' = [op |-> "Update",
                    tick |-> IF lastCall.op = "Update" THEN 1 - lastCall.tick ELSE 0]
    /\ UNCHANGED <<TotalChunksCreated, OwnerPlanetRadius>>
    /\ UNCHANGED <<planetVars, lodVars, densityVars, meshVars, idVars>>

InitChunk ==
    /\ Chunks = [id \in ChunkIds |-> NoChunk]
    /\ TotalChunksCreated = 0
    /\ OwnerPlanetRadius \in PlanetRadii
    /\ lastCall = NoCall

NextChunk ==
    \/ \E id \in ChunkIds : CreateChunk(id)
    \/ Update
    \/ \E id \in ChunkIds, s \in EChunkState : TransitionToState(id, s)
    \/ \E id \in ChunkIds : IncrementGenerationId(id)
    \/ \E id \in ChunkIds, m \in MeshPayloads : SetMeshData(id, m)
    \/ \E id \in ChunkIds : ClearMeshData(id)
    \/ \E id \in ChunkIds, p \in ProxyRefs : SetRenderProxy(id, p)
    \/ \E id \in ChunkIds : ClearRenderProxy(id)

(***************************************************************************)
(* Part 2: ACubeSpherePlanet and AVoxelChunk                               *)
(*                                                                         *)
(* A chunk actor is referred to by the ChunkInfos slot that holds it.      *)
(* Destroy() makes every other reference to the actor (the weak pointer    *)
(* of its generation tasks, its entries of MeshUpdateQueue) fail the       *)
(* validity test, so at the moment of destruction those references are     *)
(* turned into DeadRef and the slot's actor record is free for the next    *)
(* actor spawned for the slot.                                             *)
(***************************************************************************)

\* number of entries of ChunkInfos (ChunksPerFace = 1: one chunk per cube face,
\* in the order of Faces[]; the model keeps the first NumChunks of the six)
NumChunks == 3
\* GenerateChunkAsync calls on one chunk actor
MaxRequests == 2
\* generation tasks in flight at one time
MaxTasks == 2
\* entries of MeshUpdateQueue
MaxMeshQueue == 2

\* ACubeSpherePlanet(): PlanetRadius = 50000.f
PlanetRadius == 5000
\* ACubeSpherePlanet(): RenderDistance = 150000.0f
RenderDistance == 15000
\* ACubeSpherePlanet(): LODSettings, index 0 the closest tier (bAutoLOD off:
\* the table of the constructor is the one in use)
LODSettings == <<[Distance |-> 1500], [Distance |-> 3000], [Distance |-> 6000]>>
\* LODSettings.Num()
NumLODs == Len(LODSettings)
\* LODSettings[LodIndex].Distance for the 0-based index of the code
LODDistance(LodIndex) == LODSettings[LodIndex + 1].Distance

\* the "* 1.1f" hysteresis factor of UpdateLODAndStreaming, as a fraction
HysteresisNum == 11
HysteresisDen == 10

\* values the editable properties ChunksToSpawnPerFrame,
\* MaxConcurrentChunkGenerations and ChunksMeshUpdatesPerFrame are configured to
ConfiguredLimits == {1, 2}

\* positions the observer is seen at, on the axis through the +X and -X faces
\* (GetObserverPosition() is ZeroVector, the planet centre, without a viewport)
ObserverXs == {0, -3000, 15000, 25000}

Slots == 1..NumChunks

\* nullptr
NoActor == 0
\* a pointer to a destroyed actor: IsValid(Chunk) is false, weakThis.Get() is null
DeadRef == 0

\* FChunkInfo::LocalLocation of slot i: face centre times PlanetRadius
\* (PrepareGeneration with ChunksPerFace = 1, faces +X, -X, +Y, -Y, +Z, -Z)
LocalLocation(i) ==
    CASE i = 1 -> [X |-> PlanetRadius,  Y |-> 0, Z |-> 0]
      [] i = 2 -> [X |-> -PlanetRadius, Y |-> 0, Z |-> 0]
      [] i = 3 -> [X |-> 0, Y |-> PlanetRadius,  Z |-> 0]
      [] i = 4 -> [X |-> 0, Y |-> -PlanetRadius, Z |-> 0]
      [] i = 5 -> [X |-> 0, Y |-> 0, Z |-> PlanetRadius]
      [] OTHER -> [X |-> 0, Y |-> 0, Z |-> -PlanetRadius]

Square(x) == x * x
Abs(x) == IF x < 0 THEN -x ELSE x
Max(a, b) == IF a > b THEN a ELSE b

\* FVector::DistSquared(ChunkWorldLocation, ObserverPos), planet at the origin
DistSq(i, obs) ==
    Square(LocalLocation(i).X - obs) + Square(LocalLocation(i).Y) + Square(LocalLocation(i).Z)

\* FMath::Max(0.0f, FVector::Dist(GetActorLocation(), ObserverPos) - PlanetRadius)
DistToSurface(obs) == Max(0, Abs(obs) - PlanetRadius)

\* bShowChunks = DistToSurface < ChunkCullDist
bShowChunks(obs) == DistToSurface(obs) < RenderDistance

\* A mesh is named by the request that computed it: the ordinal (1, 2, ...) of
\* the GenerateChunkAsync call on its actor.
\* FChunkMeshData with empty arrays (a fresh actor, or after UploadMesh):
EmptyMesh == 0
\* no mesh section was ever created on the ProceduralMesh
NoSection == -1

\* the record of a slot that holds no living actor
DeadActor == [alive |-> FALSE, CurrentLOD |-> -1, GeneratedMeshData |-> EmptyMesh,
              Section |-> NoSection, requests |-> 0, overlapped |-> FALSE]

\* no queue entry handled yet by the running call (dropped: popped from the
\* spawn queue without a spawn attempt)
NoFrame == [popped |-> 0, dropped |-> 0, removed |-> 0, uploaded |-> 0]

\* TArray::Last in place of Pop: the element is read and stays in the array
LastWithoutPop(q) == q

\* TArray::Pop takes the last element
PopValue(q) == q[Len(q)]
PopRest(q) == SubSeq(q, 1, Len(q) - 1)

\* the elements of a set of slot indices in ascending order
RECURSIVE Ascending(_)
Ascending(S) ==
    IF S = {} THEN <<>>
    ELSE LET m == CHOOSE x \in S : \A y \in S : x <= y
         IN <<m>> \o Ascending(S \ {m})

\* AActor::Destroy() on the actors of the slots in D, seen from the tasks
DestroyTasks(D) == {t \in tasks : t.chunk \notin D}
DestroyDeadTasks(D) == deadTasks + Cardinality({t \in tasks : t.chunk \in D})
\* ... and from MeshUpdateQueue
DestroyQueue(D) ==
    [k \in 1..Len(MeshUpdateQueue) |->
        IF MeshUpdateQueue[k] \in D THEN DeadRef ELSE MeshUpdateQueue[k]]

\* the downgrade threshold without the hysteresis factor
HysteresisSqNoFactor(Distance) == Square(Distance)

\* FMath::Square(Distance * 1.1f): the factor applied before squaring
HysteresisSq(Distance) == Square((HysteresisNum * Distance) \div HysteresisDen)

\* "Determine Target LOD" without the despawn test of an active chunk
TargetLODAtNeverDespawns(Settings, Active, CurrentLOD, d2) ==
    IF Active
    THEN IF CurrentLOD > 0 /\ d2 < Square(Settings[CurrentLOD].Distance)
         THEN CurrentLOD - 1
         ELSE IF CurrentLOD < Len(Settings) - 1
                 /\ d2 > HysteresisSq(Settings[CurrentLOD + 1].Distance)
         THEN CurrentLOD + 1
         ELSE CurrentLOD
    ELSE IF \E l \in 0..(Len(Settings) - 1) : d2 < Square(Settings[l + 1].Distance)
         THEN CHOOSE l \in 0..(Len(Settings) - 1) :
                 /\ d2 < Square(Settings[l + 1].Distance)
                 /\ \A k \in 0..(l - 1) : ~(d2 < Square(Settings[k + 1].Distance))
         ELSE -1

\* "Determine Target LOD" with the hysteresis factor applied to the upgrade
\* threshold as well
TargetLODAtUpgradeWithFactor(Settings, Active, CurrentLOD, d2) ==
    IF Active
    THEN IF CurrentLOD > 0 /\ d2 < HysteresisSq(Settings[CurrentLOD].Distance)
         THEN CurrentLOD - 1
         ELSE IF CurrentLOD < Len(Settings) - 1
                 /\ d2 > HysteresisSq(Settings[CurrentLOD + 1].Distance)
         THEN CurrentLOD + 1
         ELSE IF d2 > HysteresisSq(RenderDistance)
         THEN -1
         ELSE CurrentLOD
    ELSE IF \E l \in 0..(Len(Settings) - 1) : d2 < Square(Settings[l + 1].Distance)
         THEN CHOOSE l \in 0..(Len(Settings) - 1) :
                 /\ d2 < Square(Settings[l + 1].Distance)
                 /\ \A k \in 0..(l - 1) : ~(d2 < Square(Settings[k + 1].Distance))
         ELSE -1

\* "Determine Target LOD" with the downgrade test made at the last tier too
TargetLODAtDowngradePastLastTier(Settings, Active, CurrentLOD, d2) ==
    IF Active
    THEN IF CurrentLOD > 0 /\ d2 < Square(Settings[CurrentLOD].Distance)
         THEN CurrentLOD - 1
         ELSE IF d2 > HysteresisSq(Settings[CurrentLOD + 1].Distance)
         THEN CurrentLOD + 1
         ELSE IF d2 > HysteresisSq(RenderDistance)
         THEN -1
         ELSE CurrentLOD
    ELSE IF \E l \in 0..(Len(Settings) - 1) : d2 < Square(Settings[l + 1].Distance)
         THEN CHOOSE l \in 0..(Len(Settings) - 1) :
                 /\ d2 < Square(Settings[l + 1].Distance)
                 /\ \A k \in 0..(l - 1) : ~(d2 < Square(Settings[k + 1].Distance))
         ELSE -1

\* UpdateLODAndStreaming, "Determine Target LOD", for one chunk: Settings is
\* the LODSettings table, Active tells whether Info.ActiveChunk is set,
\* CurrentLOD is Info.LODLevel and d2 the squared distance to the chunk
TargetLODAt(Settings, Active, CurrentLOD, d2) ==
    IF Active
    THEN IF CurrentLOD > 0 /\ d2 < Square(Settings[CurrentLOD].Distance)
         THEN CurrentLOD - 1
         ELSE IF CurrentLOD < Len(Settings) - 1
                 /\ d2 > HysteresisSq(Settings[CurrentLOD + 1].Distance)
         THEN CurrentLOD + 1
         ELSE IF d2 > HysteresisSq(RenderDistance)
         THEN -1
         ELSE CurrentLOD
    ELSE IF \E l \in 0..(Len(Settings) - 1) : d2 < Square(Settings[l + 1].Distance)
         THEN CHOOSE l \in 0..(Len(Settings) - 1) :
                 /\ d2 < Square(Settings[l + 1].Distance)
                 /\ \A k \in 0..(l - 1) : ~(d2 < Square(Settings[k + 1].Distance))
         ELSE -1

\* UpdateLODAndStreaming, "Determine Target LOD" for slot i
TargetLOD(i, obs) ==
    TargetLODAt(LODSettings, ChunkInfos[i].ActiveChunk # NoActor,
                ChunkInfos[i].LODLevel, DistSq(i, obs))

\* AVoxelChunk::GenerateChunkAsync on the actor of slot a whose fields are rec:
\* the task started, its Async(EAsyncExecution::ThreadPool, ...) lambda not yet
\* finished; gen is the ordinal of this request on the actor
GenerateChunkAsync(a, rec) == [chunk |-> a, gen |-> rec.requests, stage |-> "worker"]

\* AVoxelChunk::UpdateChunkLOD(NewLOD, ...): the actor's fields afterwards
\* (requests counts the GenerateChunkAsync calls made on the actor)
UpdateChunkLOD(rec, NewLOD) ==
    IF rec.CurrentLOD # NewLOD
    THEN [rec EXCEPT !.CurrentLOD = NewLOD, !.requests = @ + 1]
    ELSE rec

\* history: the request just made on the actor of slot i (fields rec after it)
\* was issued while an earlier task of the actor was still in flight
NoteOverlap(i, rec) ==
    IF rec.requests > actors[i].requests /\ \E t \in tasks : t.chunk = i
    THEN [rec EXCEPT !.overlapped = TRUE]
    ELSE rec

\* ACubeSpherePlanet::UpdateLODAndStreaming
UpdateLODAndStreaming ==
    /\ phase = "idle"
    /\ phase' = "spawn"
    /\ UNCHANGED <<observer, Config, ActiveGenerationTasks,
                   SpawnedThisFrame, ProcessedCount, frame>>
    /\ IF ~bShowChunks(observer)
       THEN LET Destroyed == {i \in Slots : ChunkInfos[i].ActiveChunk # NoActor}
            IN /\ ChunkSpawnQueue' = <<>>
               /\ ChunkInfos' = [i \in Slots |->
                    [ActiveChunk |-> NoActor, bPendingSpawn |-> FALSE, LODLevel |-> -1]]
               /\ actors' = [i \in Slots |-> DeadActor]
               /\ tasks' = DestroyTasks(Destroyed)
               /\ deadTasks' = DestroyDeadTasks(Destroyed)
               /\ MeshUpdateQueue' = DestroyQueue(Destroyed)
       ELSE LET Target == [i \in Slots |-> TargetLOD(i, observer)]
                Active(i) == ChunkInfos[i].ActiveChunk # NoActor
                Destroyed == {i \in Slots : Active(i) /\ Target[i] = -1}
                Switched == {i \in Slots : Active(i) /\ Target[i] # -1
                                            /\ Target[i] # ChunkInfos[i].LODLevel}
                Queued == {i \in Slots : ~Active(i) /\ Target[i] # -1
                                          /\ ~ChunkInfos[i].bPendingSpawn}
                Regenerated == {i \in Switched : actors[i].CurrentLOD # Target[i]}
            IN /\ \A i \in Regenerated : actors[i].requests < MaxRequests
               /\ Cardinality(tasks) + deadTasks + Cardinality(Regenerated) <= MaxTasks
               /\ ChunkInfos' = [i \in Slots |->
                    IF i \in Destroyed THEN [ChunkInfos[i] EXCEPT !.ActiveChunk = NoActor]
                    ELSE IF i \in Switched THEN [ChunkInfos[i] EXCEPT !.LODLevel = Target[i]]
                    ELSE IF i \in Queued
                    THEN [ChunkInfos[i] EXCEPT !.LODLevel = Target[i], !.bPendingSpawn = TRUE]
                    ELSE ChunkInfos[i]]
               /\ ChunkSpawnQueue' = ChunkSpawnQueue \o Ascending(Queued)
               /\ actors' = [i \in Slots |->
                    IF i \in Destroyed THEN DeadActor
                    ELSE IF i \in Switched
                    THEN NoteOverlap(i, UpdateChunkLOD(actors[i], Target[i]))
                    ELSE actors[i]]
               /\ tasks' = DestroyTasks(Destroyed) \cup
                    {GenerateChunkAsync(i, UpdateChunkLOD(actors[i], Target[i]))
                     : i \in Regenerated}
               /\ deadTasks' = DestroyDeadTasks(Destroyed)
               /\ MeshUpdateQueue' = DestroyQueue(Destroyed)
    /\ UNCHANGED <<chunkVars, lodVars, densityVars, meshVars, idVars>>

\* the loop condition of ProcessSpawnQueue without its per-frame budget test
SpawnLoopConditionNoBudget ==
    /\ Len(ChunkSpawnQueue) > 0
    /\ ActiveGenerationTasks < Config.MaxConcurrentChunkGenerations

\* the condition of the while loop of ProcessSpawnQueue
SpawnLoopCondition ==
    /\ Len(ChunkSpawnQueue) > 0
    /\ ActiveGenerationTasks < Config.MaxConcurrentChunkGenerations
    /\ SpawnedThisFrame < Config.ChunksToSpawnPerFrame

\* ProcessSpawnQueue without the distance re-validation at pop time
OutOfRangeNotChecked(ChunkIndex) == FALSE

\* ProcessSpawnQueue, "Re-validate distance": the popped index is out of range
OutOfRange(ChunkIndex) == DistSq(ChunkIndex, observer) > Square(RenderDistance)

\* outcomes of GetWorld()->SpawnActorDeferred: an actor, or nullptr
SpawnOutcomes == {"actor", "nullptr"}

\* ACubeSpherePlanet::ProcessSpawnQueue, one iteration of the while loop
ProcessSpawnQueueIteration ==
    /\ phase = "spawn"
    /\ SpawnLoopCondition
    /\ LET ChunkIndex == PopValue(ChunkSpawnQueue)
           Info == ChunkInfos[ChunkIndex]
           NotPending == [ChunkInfos EXCEPT ![ChunkIndex].bPendingSpawn = FALSE]
       IN /\ ChunkSpawnQueue' = PopRest(ChunkSpawnQueue)
          /\ IF OutOfRange(ChunkIndex)
             THEN /\ ChunkInfos' = NotPending
                  /\ frame' = [frame EXCEPT !.popped = @ + 1, !.dropped = @ + 1]
                  /\ UNCHANGED <<actors, tasks, ActiveGenerationTasks, SpawnedThisFrame>>
             ELSE IF Info.ActiveChunk # NoActor
             THEN /\ ChunkInfos' = NotPending
                  /\ frame' = [frame EXCEPT !.popped = @ + 1, !.dropped = @ + 1]
                  /\ UNCHANGED <<actors, tasks, ActiveGenerationTasks, SpawnedThisFrame>>
             ELSE \E Chunk \in SpawnOutcomes :
                  IF Chunk = "nullptr"
                  THEN /\ ChunkInfos' = NotPending
                       /\ frame' = [frame EXCEPT !.popped = @ + 1]
                       /\ SpawnedThisFrame' = SpawnedThisFrame + 1
                       /\ UNCHANGED <<actors, tasks, ActiveGenerationTasks>>
                  ELSE LET rec == [alive |-> TRUE, CurrentLOD |-> Info.LODLevel,
                                   GeneratedMeshData |-> EmptyMesh, Section |-> NoSection,
                                   requests |-> 1, overlapped |-> FALSE]
                       IN /\ Cardinality(tasks) + deadTasks < MaxTasks
                          /\ frame' = [frame EXCEPT !.popped = @ + 1]
                          /\ actors' = [actors EXCEPT ![ChunkIndex] = rec]
                          /\ tasks' = tasks \cup {GenerateChunkAsync(ChunkIndex, rec)}
                          /\ ActiveGenerationTasks' = ActiveGenerationTasks + 1
                          /\ ChunkInfos' = [NotPending EXCEPT ![ChunkIndex].ActiveChunk = ChunkIndex]
                          /\ SpawnedThisFrame' = SpawnedThisFrame + 1
    /\ UNCHANGED <<observer, phase, Config, MeshUpdateQueue, deadTasks, ProcessedCount>>
    /\ UNCHANGED <<chunkVars, lodVars, densityVars, meshVars, idVars>>

\* ProcessSpawnQueue returning only once every generation task has completed
ProcessSpawnQueueReturnWaitsForTasks ==
    /\ phase = "spawn"
    /\ ~SpawnLoopCondition
    /\ tasks = {}
    /\ deadTasks = 0
    /\ phase' = "upload"
    /\ SpawnedThisFrame' = 0
    /\ frame' = NoFrame
    /\ UNCHANGED <<observer, Config, ChunkInfos, ChunkSpawnQueue, MeshUpdateQueue,
                   ActiveGenerationTasks, actors, tasks, deadTasks, ProcessedCount>>
    /\ UNCHANGED <<chunkVars, lodVars, densityVars, meshVars, idVars>>

\* ACubeSpherePlanet::ProcessSpawnQueue, the loop condition fails: return
\* (the local SpawnedThisFrame ends with the call)
ProcessSpawnQueueReturn ==
    /\ phase = "spawn"
    /\ ~SpawnLoopCondition
    /\ phase' = "upload"
    /\ SpawnedThisFrame' = 0
    /\ frame' = NoFrame
    /\ UNCHANGED <<observer, Config, ChunkInfos, ChunkSpawnQueue, MeshUpdateQueue,
                   ActiveGenerationTasks, actors, tasks, deadTasks, ProcessedCount>>
    /\ UNCHANGED <<chunkVars, lodVars, densityVars, meshVars, idVars>>

\* AVoxelChunk::UploadMesh: the mesh section is created from GeneratedMeshData,
\* then the arrays are emptied
UploadMesh(rec) ==
    [rec EXCEPT !.Section = rec.GeneratedMeshData, !.GeneratedMeshData = EmptyMesh]

\* the loop condition of ProcessMeshUpdateQueue without its per-frame budget test
UploadLoopConditionNoBudget == Len(MeshUpdateQueue) > 0

\* the condition of the while loop of ProcessMeshUpdateQueue
UploadLoopCondition ==
    /\ Len(MeshUpdateQueue) > 0
    /\ ProcessedCount < Config.ChunksMeshUpdatesPerFrame

\* ACubeSpherePlanet::ProcessMeshUpdateQueue, one iteration of the while loop
ProcessMeshUpdateQueueIteration ==
    /\ phase = "upload"
    /\ UploadLoopCondition
    /\ LET Chunk == PopValue(MeshUpdateQueue)
       IN /\ MeshUpdateQueue' = PopRest(MeshUpdateQueue)
          /\ IF Chunk # DeadRef
             THEN /\ actors' = [actors EXCEPT ![Chunk] = UploadMesh(actors[Chunk])]
                  /\ frame' = [frame EXCEPT !.removed = @ + 1, !.uploaded = @ + 1]
             ELSE /\ actors' = actors
                  /\ frame' = [frame EXCEPT !.removed = @ + 1]
    /\ ProcessedCount' = ProcessedCount + 1
    /\ UNCHANGED <<observer, phase, Config, ChunkInfos, ChunkSpawnQueue,
                   ActiveGenerationTasks, tasks, deadTasks, SpawnedThisFrame>>
    /\ UNCHANGED <<chunkVars, lodVars, densityVars, meshVars, idVars>>

\* ACubeSpherePlanet::ProcessMeshUpdateQueue, the loop condition fails: return
\* (the local ProcessedCount ends with the call, and Tick is over)
ProcessMeshUpdateQueueReturn ==
    /\ phase = "upload"
    /\ ~UploadLoopCondition
    /\ phase' = "idle"
    /\ ProcessedCount' = 0
    /\ frame' = NoFrame
    /\ UNCHANGED <<observer, Config, ChunkInfos, ChunkSpawnQueue, MeshUpdateQueue,
                   ActiveGenerationTasks, actors, tasks, deadTasks, SpawnedThisFrame>>
    /\ UNCHANGED <<chunkVars, lodVars, densityVars, meshVars, idVars>>

\* ACubeSpherePlanet::OnChunkGenerationFinished(Chunk), Chunk not null:
\* the counter afterwards
OnChunkGenerationFinished(n) == IF n > 0 THEN n - 1 ELSE n

\* slots whose voxel volume the terrain surface does not cross: marching
\* cubes emits no triangle there
EmptyMeshSlots == {3}

\* AVoxelChunk::GenerateMeshFromDensity in the worker of task t: the
\* FChunkMeshData it returns, empty arrays where no cell is crossed
GenerateMeshFromDensity(t) == IF t.chunk \in EmptyMeshSlots THEN EmptyMesh ELSE t.gen

\* the mesh the callback of task t stores into Chunk->GeneratedMeshData
CallbackMesh(t, rec) == GenerateMeshFromDensity(t)

\* the fields of the actor after the thread-pool lambda of task t ran, wrongly
\* taken to store the mesh itself
WorkerWritesMeshData(t, rec) == [rec EXCEPT !.GeneratedMeshData = t.gen]

\* the fields of the actor (rec before) after the thread-pool lambda of task t
\* ran: the lambda captures values and weakThis only, builds its own
\* PlanetDensityGenerator and FChunkMeshData and writes to no member
WorkerWrites(t, rec) == rec

\* the Async(EAsyncExecution::ThreadPool, ...) lambda of GenerateChunkAsync for
\* task t, run by a pool thread at any time: density field, mesh, then
\* AsyncTask(ENamedThreads::GameThread, ...) posts the completion callback
GenerationWorker(t) ==
    /\ t \in tasks
    /\ t.stage = "worker"
    /\ tasks' = (tasks \ {t}) \cup {[t EXCEPT !.stage = "posted"]}
    /\ actors' = [actors EXCEPT ![t.chunk] = WorkerWrites(t, @)]
    /\ UNCHANGED <<observer, phase, Config, ChunkInfos, ChunkSpawnQueue, MeshUpdateQueue,
                   ActiveGenerationTasks, deadTasks, SpawnedThisFrame, ProcessedCount,
                   frame>>
    /\ UNCHANGED <<chunkVars, lodVars, densityVars, meshVars, idVars>>

\* the AsyncTask(ENamedThreads::GameThread, ...) lambda of GenerateChunkAsync
\* for task t of a living actor, run by the game thread between two frames
GenerationCallback(t) ==
    /\ phase = "idle"
    /\ t \in tasks
    /\ t.stage = "posted"
    /\ Len(MeshUpdateQueue) < MaxMeshQueue
    /\ tasks' = tasks \ {t}
    /\ actors' = [actors EXCEPT ![t.chunk].GeneratedMeshData = CallbackMesh(t, actors[t.chunk])]
    /\ ActiveGenerationTasks' = OnChunkGenerationFinished(ActiveGenerationTasks)
    /\ MeshUpdateQueue' = Append(MeshUpdateQueue, t.chunk)
    /\ UNCHANGED <<observer, phase, Config, ChunkInfos, ChunkSpawnQueue, deadTasks,
                   SpawnedThisFrame, ProcessedCount, frame>>
    /\ UNCHANGED <<chunkVars, lodVars, densityVars, meshVars, idVars>>

\* the same lambda for a task whose actor was destroyed: weakThis.Get() is null
GenerationCallbackDead ==
    /\ phase = "idle"
    /\ deadTasks > 0
    /\ deadTasks' = deadTasks - 1
    /\ UNCHANGED <<observer, phase, Config, ChunkInfos, ChunkSpawnQueue, MeshUpdateQueue,
                   ActiveGenerationTasks, actors, tasks, SpawnedThisFrame, ProcessedCount,
                   frame>>
    /\ UNCHANGED <<chunkVars, lodVars, densityVars, meshVars, idVars>>

\* ACubeSpherePlanet::GeneratePlanet() between two frames: PrepareGeneration
\* calls ClearAllChunks (both queues emptied, ActiveGenerationTasks = 0, every
\* chunk actor destroyed, ChunkInfos emptied) and builds ChunkInfos anew
GeneratePlanet ==
    /\ phase = "idle"
    /\ LET Destroyed == {i \in Slots : ChunkInfos[i].ActiveChunk # NoActor}
       IN /\ ChunkSpawnQueue' = <<>>
          /\ MeshUpdateQueue' = <<>>
          /\ ActiveGenerationTasks' = 0
          /\ ChunkInfos' = [i \in Slots |->
                [ActiveChunk |-> NoActor, bPendingSpawn |-> FALSE, LODLevel |-> -1]]
          /\ actors' = [i \in Slots |-> DeadActor]
          /\ tasks' = DestroyTasks(Destroyed)
          /\ deadTasks' = DestroyDeadTasks(Destroyed)
    /\ UNCHANGED <<observer, phase, Config, SpawnedThisFrame, ProcessedCount, frame>>
    /\ UNCHANGED <<chunkVars, lodVars, densityVars, meshVars, idVars>>

\* the observer is somewhere else when the next frame starts
MoveObserver(x) ==
    /\ phase = "idle"
    /\ x # observer
    /\ observer' = x
    /\ UNCHANGED <<phase, Config, ChunkInfos, ChunkSpawnQueue, MeshUpdateQueue,
                   ActiveGenerationTasks, actors, tasks, deadTasks, SpawnedThisFrame,
                   ProcessedCount, frame>>
    /\ UNCHANGED <<chunkVars, lodVars, densityVars, meshVars, idVars>>

\* the settings of the three throttles a planet is configured with: each limit
\* takes each value, and each pair of limits takes each pair of values
Configurations ==
    {c \in [ChunksToSpawnPerFrame : ConfiguredLimits,
            MaxConcurrentChunkGenerations : ConfiguredLimits,
            ChunksMeshUpdatesPerFrame : ConfiguredLimits] :
        (c.ChunksToSpawnPerFrame + c.MaxConcurrentChunkGenerations
            + c.ChunksMeshUpdatesPerFrame) % 2 = 1}

\* ACubeSpherePlanet() followed by BeginPlay/GeneratePlanet: every slot without
\* chunk, queues empty, no task counted
InitPlanet ==
    /\ observer \in ObserverXs
    /\ phase = "idle"
    /\ Config \in Configurations
    /\ ChunkInfos = [i \in Slots |->
                        [ActiveChunk |-> NoActor, bPendingSpawn |-> FALSE, LODLevel |-> -1]]
    /\ ChunkSpawnQueue = <<>>
    /\ MeshUpdateQueue = <<>>
    /\ ActiveGenerationTasks = 0
    /\ actors = [i \in Slots |-> DeadActor]
    /\ tasks = {}
    /\ deadTasks = 0
    /\ SpawnedThisFrame = 0
    /\ ProcessedCount = 0
    /\ frame = NoFrame

NextPlanet ==
    \/ \E x \in ObserverXs : MoveObserver(x)
    \/ GeneratePlanet
    \/ UpdateLODAndStreaming
    \/ ProcessSpawnQueueIteration
    \/ ProcessSpawnQueueReturn
    \/ ProcessMeshUpdateQueueIteration
    \/ ProcessMeshUpdateQueueReturn
    \/ \E t \in tasks : GenerationWorker(t)
    \/ \E t \in tasks : GenerationCallback(t)
    \/ GenerationCallbackDead

(***************************************************************************)
(* Part 3: the LOD pass of UpdateLODAndStreaming on one chunk position     *)
(*                                                                         *)
(* The observer moves along the axis through the +X and -X faces in steps  *)
(* fine enough to stand one unit before, on and one unit behind every      *)
(* threshold of the pass. The unit of length is 10 world units.            *)
(***************************************************************************)

\* frames counted in one run of alternating distances
MaxOscillationFrames == 4

\* PrepareGeneration with bAutoLOD: LODSettings = RenderDistance * 0.15f,
\* * 0.40f, * 1.05f (RenderDistance = Clamp(PlanetRadius * 3, 30000, 250000),
\* which for PlanetRadius 50000 is the constructor's 150000)
AutoLODSettings ==
    <<[Distance |-> (15 * RenderDistance) \div 100],
      [Distance |-> (40 * RenderDistance) \div 100],
      [Distance |-> (105 * RenderDistance) \div 100]>>

\* LODSettings after PrepareGeneration
SettingsOf(Auto) == IF Auto THEN AutoLODSettings ELSE LODSettings

\* FarModelActivateDist = RenderDistance * 0.75f
FarModelActivateDist == (3 * RenderDistance) \div 4

\* bShowFarModel = DistToSurface > FarModelActivateDist
bShowFarModel(obs) == DistToSurface(obs) > FarModelActivateDist

\* FChunkInfo without chunk: the value the out-of-range branch resets to
NoChunkInfo == [ActiveChunk |-> FALSE, bPendingSpawn |-> FALSE, LODLevel |-> -1]

\* UpdateLODAndStreaming, "Apply State Changes", on one FChunkInfo
ApplyTargetLOD(Info, Target) ==
    IF Info.ActiveChunk
    THEN IF Target = -1 THEN [Info EXCEPT !.ActiveChunk = FALSE]
         ELSE IF Target # Info.LODLevel THEN [Info EXCEPT !.LODLevel = Target]
         ELSE Info
    ELSE IF Target # -1 /\ ~Info.bPendingSpawn
         THEN [Info EXCEPT !.LODLevel = Target, !.bPendingSpawn = TRUE]
         ELSE Info

\* UpdateLODAndStreaming on the FChunkInfo of slot i with the observer at obs
ChunkInfoAfterFrame(Settings, Info, i, obs) ==
    IF ~bShowChunks(obs)
    THEN NoChunkInfo
    ELSE ApplyTargetLOD(Info, TargetLODAt(Settings, Info.ActiveChunk, Info.LODLevel,
                                          DistSq(i, obs)))

\* the slots looked at: the +X face and the -X face
WatchedSlots == {1, 2}

\* FVector::Dist(ChunkWorldLocation, ObserverPos) for a slot on the X axis
AxisDist(i, obs) == Abs(LocalLocation(i).X - obs)

\* the distances the pass compares with: activation distances, downgrade
\* distances, FarModelActivateDist and ChunkCullDist
LODThresholdsOf(Settings) ==
    UNION {{Settings[k].Distance, (HysteresisNum * Settings[k].Distance) \div HysteresisDen}
           : k \in 1..Len(Settings)}
LODThresholds ==
    LODThresholdsOf(LODSettings) \cup LODThresholdsOf(AutoLODSettings)
        \cup {FarModelActivateDist, RenderDistance}

\* observer positions one unit before, on and one unit behind each threshold,
\* measured from the +X face and from the -X face, and the planet centre
LODObserverXs ==
    {0} \cup {PlanetRadius + T + e : T \in LODThresholds, e \in {-1, 0, 1}}
        \cup {T + e - PlanetRadius : T \in LODThresholds, e \in {-1, 0, 1}}

\* DowngradeDist of the tiers that have a coarser tier: Distance * 1.1f
DowngradeBoundaries(Settings) ==
    {(HysteresisNum * Settings[k].Distance) \div HysteresisDen : k \in 1..(Len(Settings) - 1)}

NoOscillation == [boundary |-> 0, frames |-> 0, changes |-> 0, start |-> -1, left |-> {}]

\* one frame's UpdateLODAndStreaming with the observer at x, seen from the
\* watched slot
LODFrameUpdate(x) ==
    LET Settings == SettingsOf(bAutoLOD)
        After == ChunkInfoAfterFrame(Settings, ChunkInfo, watched, x)
        d == AxisDist(watched, x)
        prev == AxisDist(watched, lodObserver)
        Changed == \/ After.ActiveChunk # ChunkInfo.ActiveChunk
                   \/ After.LODLevel # ChunkInfo.LODLevel
        Continues == /\ oscillation.boundary # 0
                     /\ {prev, d} = {oscillation.boundary - 1, oscillation.boundary + 1}
        Starts == /\ ~Continues
                  /\ ChunkInfo.ActiveChunk
                  /\ \E b \in DowngradeBoundaries(Settings) : d \in {b - 1, b + 1}
    IN /\ Continues => oscillation.frames < MaxOscillationFrames
       /\ lodObserver' = x
       /\ FarModelHidden' = ~bShowFarModel(x)
       /\ ChunkInfo' = After
       /\ lodFrame' = [fresh |-> TRUE, before |-> ChunkInfo]
       /\ oscillation' =
            IF Continues
            THEN [oscillation EXCEPT
                    !.frames = @ + 1,
                    !.changes = IF Changed THEN @ + 1 ELSE @,
                    !.left = IF Changed THEN @ \cup {ChunkInfo.LODLevel} ELSE @]
            ELSE IF Starts
            THEN [boundary |-> CHOOSE b \in DowngradeBoundaries(Settings) : d \in {b - 1, b + 1},
                  frames |-> 1,
                  changes |-> IF Changed THEN 1 ELSE 0,
                  start |-> ChunkInfo.LODLevel,
                  left |-> IF Changed THEN {ChunkInfo.LODLevel} ELSE {}]
            ELSE NoOscillation
       /\ UNCHANGED <<watched, bAutoLOD>>
       /\ UNCHANGED <<chunkVars, planetVars, densityVars, meshVars, idVars>>

\* ProcessSpawnQueue popping the watched slot: dropped when out of range,
\* else SpawnActorDeferred gives an actor or nullptr
LODSpawn(Chunk) ==
    /\ ChunkInfo.bPendingSpawn
    /\ ChunkInfo' =
        IF DistSq(watched, lodObserver) > Square(RenderDistance) \/ Chunk = "nullptr"
        THEN [ChunkInfo EXCEPT !.bPendingSpawn = FALSE]
        ELSE [ChunkInfo EXCEPT !.bPendingSpawn = FALSE, !.ActiveChunk = TRUE]
    /\ lodFrame' = [lodFrame EXCEPT !.fresh = FALSE]
    /\ UNCHANGED <<watched, bAutoLOD, lodObserver, FarModelHidden, oscillation>>
    /\ UNCHANGED <<chunkVars, planetVars, densityVars, meshVars, idVars>>

\* BeginPlay done, no frame ticked: no chunk, the far model created hidden
InitLOD ==
    /\ watched \in WatchedSlots
    /\ bAutoLOD \in BOOLEAN
    /\ lodObserver = 0
    /\ ChunkInfo = NoChunkInfo
    /\ FarModelHidden = TRUE
    /\ lodFrame = [fresh |-> FALSE, before |-> NoChunkInfo]
    /\ oscillation = NoOscillation

NextLOD ==
    \/ \E x \in LODObserverXs : LODFrameUpdate(x)
    \/ \E Chunk \in SpawnOutcomes : LODSpawn(Chunk)

\* the single-position view while the other parts run: one of its initial states
LODIdle ==
    /\ InitLOD
    /\ watched = 1
    /\ bAutoLOD = FALSE

(***************************************************************************)
(* Part 4: construction of the density generators                          *)
(*                                                                         *)
(* Lengths are in tenths of a unit here (the minimum radius 1.0f is 10).   *)
(***************************************************************************)

\* values of FParameters::PlanetRadius and DensityConfig::PlanetRadius passed in
RadiusInputs == {-10, 0, 5, 10, 20}
\* values of FParameters::CoreRadius passed in
CoreRadiusInputs == {-5, 0, 9, 10, 18, 30}
\* values of FParameters::TerrainNoiseAmplitude and DensityConfig::NoiseAmplitude passed in
AmplitudeInputs == {-10, 0, 10}
\* values of DensityConfig::VoxelSize passed in
VoxelSizeInputs == {-10, 0, 5, 10}

\* FMath::Clamp(X, Min, Max)
Clamp(X, Lo, Hi) == IF X < Lo THEN Lo ELSE IF X < Hi THEN X ELSE Hi

\* 1.0f, the least PlanetRadius FDensityGenerator keeps
MinPlanetRadius == 10

\* Params.PlanetRadius * 0.9f
MaxCoreRadius(Radius) == (9 * Radius) \div 10

\* FDensityGenerator::FDensityGenerator(InParams, ...): Params as kept
FDensityGenerator(InParams) ==
    LET Radius == Max(InParams.PlanetRadius, MinPlanetRadius)
    IN [class |-> "FDensityGenerator",
        PlanetRadius |-> Radius,
        CoreRadius |-> Clamp(InParams.CoreRadius, 0, MaxCoreRadius(Radius)),
        TerrainNoiseAmplitude |-> Max(InParams.TerrainNoiseAmplitude, 0)]

\* PlanetDensityGenerator::PlanetDensityGenerator(InConfig): Config as kept
\* (Config(InConfig); the two ensure() calls report and go on), and whether an
\* ensure() reported
PlanetDensityGenerator(InConfig) ==
    [class |-> "PlanetDensityGenerator",
     PlanetRadius |-> InConfig.PlanetRadius,
     NoiseAmplitude |-> InConfig.NoiseAmplitude,
     VoxelSize |-> InConfig.VoxelSize,
     ensureReported |-> ~(InConfig.PlanetRadius > 0) \/ ~(InConfig.VoxelSize > 0)]

NoGenerator == [class |-> "none"]
NoSample == [class |-> "none"]

\* a caller constructs an FDensityGenerator
ConstructFDensityGenerator(InParams) ==
    /\ generator' = FDensityGenerator(InParams)
    /\ given' = InParams
    /\ lastSample' = NoSample
    /\ UNCHANGED <<chunkVars, planetVars, lodVars, meshVars, idVars>>

\* the worker of GenerateChunkAsync constructs a PlanetDensityGenerator
ConstructPlanetDensityGenerator(InConfig) ==
    /\ generator' = PlanetDensityGenerator(InConfig)
    /\ given' = InConfig
    /\ lastSample' = NoSample
    /\ UNCHANGED <<chunkVars, planetVars, lodVars, meshVars, idVars>>

\* SampleDensity on the generator: FDensityGenerator::SampleBaseSphere reads
\* Params.PlanetRadius and Params.CoreRadius; PlanetDensityGenerator::
\* SampleSphereDensity divides by Config.VoxelSize (not finite when it is 0)
SampleDensity ==
    /\ generator # NoGenerator
    /\ lastSample' =
        IF generator.class = "FDensityGenerator"
        THEN [class |-> generator.class, PlanetRadius |-> generator.PlanetRadius,
              CoreRadius |-> generator.CoreRadius, finite |-> TRUE]
        ELSE [class |-> generator.class, PlanetRadius |-> generator.PlanetRadius,
              VoxelSize |-> generator.VoxelSize, finite |-> generator.VoxelSize # 0]
    /\ UNCHANGED <<generator, given>>
    /\ UNCHANGED <<chunkVars, planetVars, lodVars, meshVars, idVars>>

\* no generator constructed yet
InitDensity ==
    /\ generator = NoGenerator
    /\ given = NoGenerator
    /\ lastSample = NoSample

NextDensity ==
    \/ \E InParams \in [PlanetRadius : RadiusInputs, CoreRadius : CoreRadiusInputs,
                        TerrainNoiseAmplitude : AmplitudeInputs] :
            ConstructFDensityGenerator(InParams)
    \/ \E InConfig \in [PlanetRadius : RadiusInputs, NoiseAmplitude : AmplitudeInputs,
                        VoxelSize : VoxelSizeInputs] :
            ConstructPlanetDensityGenerator(InConfig)
    \/ SampleDensity

(***************************************************************************)
(* Part 5: vertex interpolation of the mesh extractors                     *)
(*                                                                         *)
(* Densities are in units of 1e-7, positions are integer vectors, and the  *)
(* arithmetic is exact: the interpolation parameter and the vertex are     *)
(* fractions (numerator over a positive denominator).                      *)
(***************************************************************************)

\* corner densities passed in (D1, D2 of VertexInterp; V1, V2 of VertexInterpolation)
DensityInputs == {-20000, -1500, -1005, -500, -5, 0, 5, 500, 20000}
\* values of FConfig::IsoLevel (0.0 by convention)
IsoLevels == {0, 500}
\* corner positions of an edge: cell edges along each axis, and a warped edge
EdgePositions == {<<(<<0, 0, 0>>), (<<10, 0, 0>>)>>, <<(<<10, 10, 0>>), (<<0, 10, 0>>)>>,
                  <<(<<0, 0, 0>>), (<<0, 0, 10>>)>>, <<(<<3, 1, 0>>), (<<9, 4, 2>>)>>}

\* const float Epsilon = 1e-6f of AVoxelChunk::VertexInterp
VertexInterpEpsilon == 10
\* 0.00001f, the exact-match tolerance of FMarchingCubes::VertexInterpolation
ExactMatchTolerance == 100
\* -1e-4f of AVoxelChunk::GenerateMeshFromDensity, and Epsilon = 0.0001f of
\* FMarchingCubes::ProcessGridCells: the classification epsilon
ClassificationEpsilon == 1000

\* D[i] < -1e-4f: the corner sets its bit of CubeIndex (AVoxelChunk)
VoxelChunkCornerBit(D) == D < -ClassificationEpsilon
\* CubeValues[i] < Config.IsoLevel - Epsilon (FMarchingCubes)
MarchingCubesCornerBit(V, IsoLevel) == V < IsoLevel - ClassificationEpsilon

\* a fraction with a positive denominator
Fraction(n, d) == IF d < 0 THEN [num |-> -n, den |-> -d] ELSE [num |-> n, den |-> d]
\* a vector of fractions with one positive denominator
FractionVector(v, d) ==
    IF d < 0 THEN [num |-> [c \in 1..3 |-> -v[c]], den |-> -d] ELSE [num |-> v, den |-> d]
NoParameter == [num |-> 0, den |-> 0]

\* (P1 + P2) * 0.5f
Midpoint(P1, P2) == FractionVector([c \in 1..3 |-> P1[c] + P2[c]], 2)
\* P1 + T * (P2 - P1) for T = n / d
Lerp(P1, P2, n, d) == FractionVector([c \in 1..3 |-> d * P1[c] + n * (P2[c] - P1[c])], d)

\* AVoxelChunk::VertexInterp with the parameter T unclamped: the vertex
\* returned, the branch taken and the parameter T used
VertexInterp(P1, P2, D1, D2) ==
    LET Denom == D1 - D2
    IN IF Abs(Denom) < VertexInterpEpsilon
       THEN [branch |-> "midpoint", T |-> NoParameter, vertex |-> Midpoint(P1, P2)]
       ELSE [branch |-> "interpolated", T |-> Fraction(D1, Denom),
             vertex |-> Lerp(P1, P2, D1, Denom)]

\* FMath::Clamp(T, 0.0f, 1.0f) of a fraction n / d
ClampUnit(T) ==
    IF T.num < 0 THEN [num |-> 0, den |-> 1]
    ELSE IF T.num < T.den THEN T ELSE [num |-> 1, den |-> 1]

\* VertexInterpolation without its two exact-match returns
VertexInterpolationNoExactMatch(P1, P2, V1, V2, IsoLevel) ==
    IF (V1 < IsoLevel /\ V2 < IsoLevel) \/ (V1 > IsoLevel /\ V2 > IsoLevel)
    THEN [branch |-> "midpoint", T |-> NoParameter, vertex |-> Midpoint(P1, P2)]
    ELSE LET T == ClampUnit(Fraction(IsoLevel - V1, V2 - V1))
         IN [branch |-> "interpolated", T |-> T, vertex |-> Lerp(P1, P2, T.num, T.den)]

\* FMarchingCubes::VertexInterpolation
VertexInterpolation(P1, P2, V1, V2, IsoLevel) ==
    IF (V1 < IsoLevel /\ V2 < IsoLevel) \/ (V1 > IsoLevel /\ V2 > IsoLevel)
    THEN [branch |-> "midpoint", T |-> NoParameter, vertex |-> Midpoint(P1, P2)]
    ELSE IF Abs(IsoLevel - V1) < ExactMatchTolerance
    THEN [branch |-> "P1", T |-> NoParameter, vertex |-> FractionVector(P1, 1)]
    ELSE IF Abs(IsoLevel - V2) < ExactMatchTolerance
    THEN [branch |-> "P2", T |-> NoParameter, vertex |-> FractionVector(P2, 1)]
    ELSE LET T == ClampUnit(Fraction(IsoLevel - V1, V2 - V1))
         IN [branch |-> "interpolated", T |-> T, vertex |-> Lerp(P1, P2, T.num, T.den)]

\* const FVector CornerOffsets[8]
CornerOffsets == <<(<<0, 0, 0>>), (<<1, 0, 0>>), (<<1, 1, 0>>), (<<0, 1, 0>>),
                   (<<0, 0, 1>>), (<<1, 0, 1>>), (<<1, 1, 1>>), (<<0, 1, 1>>)>>

\* const int EdgeIndex[12][2]: the two corners (0..7) of edge e is EdgeIndex[e + 1];
\* the same pairs as the twelve if (Edges & ...) statements of ProcessGridCells
EdgeIndex == <<(<<0, 1>>), (<<1, 2>>), (<<2, 3>>), (<<3, 0>>), (<<4, 5>>), (<<5, 6>>),
               (<<6, 7>>), (<<7, 4>>), (<<0, 4>>), (<<1, 5>>), (<<2, 6>>), (<<3, 7>>)>>

\* MarchingCubesTables::EdgeTable, the standard 256-entry edge table: the
\* entry of configuration i is EdgeTable[i + 1]
EdgeTable == <<
    0, 265, 515, 778, 1030, 1295, 1541, 1804, 2060, 2309, 2575, 2822, 3082, 3331, 3593, 3840,
    400, 153, 915, 666, 1430, 1183, 1941, 1692, 2460, 2197, 2975, 2710, 3482, 3219, 3993, 3728,
    560, 825, 51, 314, 1590, 1855, 1077, 1340, 2620, 2869, 2111, 2358, 3642, 3891, 3129, 3376,
    928, 681, 419, 170, 1958, 1711, 1445, 1196, 2988, 2725, 2479, 2214, 4010, 3747, 3497, 3232,
    1120, 1385, 1635, 1898, 102, 367, 613, 876, 3180, 3429, 3695, 3942, 2154, 2403, 2665, 2912,
    1520, 1273, 2035, 1786, 502, 255, 1013, 764, 3580, 3317, 4095, 3830, 2554, 2291, 3065, 2800,
    1616, 1881, 1107, 1370, 598, 863, 85, 348, 3676, 3925, 3167, 3414, 2650, 2899, 2137, 2384,
    1984, 1737, 1475, 1226, 966, 719, 453, 204, 4044, 3781, 3535, 3270, 3018, 2755, 2505, 2240,
    2240, 2505, 2755, 3018, 3270, 3535, 3781, 4044, 204, 453, 719, 966, 1226, 1475, 1737, 1984,
    2384, 2137, 2899, 2650, 3414, 3167, 3925, 3676, 348, 85, 863, 598, 1370, 1107, 1881, 1616,
    2800, 3065, 2291, 2554, 3830, 4095, 3317, 3580, 764, 1013, 255, 502, 1786, 2035, 1273, 1520,
    2912, 2665, 2403, 2154, 3942, 3695, 3429, 3180, 876, 613, 367, 102, 1898, 1635, 1385, 1120,
    3232, 3497, 3747, 4010, 2214, 2479, 2725, 2988, 1196, 1445, 1711, 1958, 170, 419, 681, 928,
    3376, 3129, 3891, 3642, 2358, 2111, 2869, 2620, 1340, 1077, 1855, 1590, 314, 51, 825, 560,
    3728, 3993, 3219, 3482, 2710, 2975, 2197, 2460, 1692, 1941, 1183, 1430, 666, 915, 153, 400,
    3840, 3593, 3331, 3082, 2822, 2575, 2309, 2060, 1804, 1541, 1295, 1030, 778, 515, 265, 0 >>

\* MarchingCubesTables::TriTable, the standard 256-entry triangle table, each
\* row padded with -1 to 16 entries: the row of configuration i is TriTable[i + 1]
TriTable == <<
    <<-1, -1, -1, -1, -1, -1, -1, -1, -1, -1, -1, -1, -1, -1, -1, -1>>,
    <<0, 8, 3, -1, -1, -1, -1, -1, -1, -1, -1, -1, -1, -1, -1, -1>>,
    <<0, 1, 9, -1, -1, -1, -1, -1, -1, -1, -1, -1, -1, -1, -1, -1>>,
    <<1, 8, 3, 9, 8, 1, -1, -1, -1, -1, -1, -1, -1, -1, -1, -1>>,
    <<1, 2, 10, -1, -1, -1, -1, -1, -1, -1, -1, -1, -1, -1, -1, -1>>,
    <<0, 8, 3, 1, 2, 10, -1, -1, -1, -1, -1, -1, -1, -1, -1, -1>>,
    <<9, 2, 10, 0, 2, 9, -1, -1, -1, -1, -1, -1, -1, -1, -1, -1>>,
    <<2, 8, 3, 2, 10, 8, 10, 9, 8, -1, -1, -1, -1, -1, -1, -1>>,
    <<3, 11, 2, -1, -1, -1, -1, -1, -1, -1, -1, -1, -1, -1, -1, -1>>,
    <<0, 11, 2, 8, 11, 0, -1, -1, -1, -1, -1, -1, -1, -1, -1, -1>>,
    <<1, 9, 0, 2, 3, 11, -1, -1, -1, -1, -1, -1, -1, -1, -1, -1>>,
    <<1, 11, 2, 1, 9, 11, 9, 8, 11, -1, -1, -1, -1, -1, -1, -1>>,
    <<3, 10, 1, 11, 10, 3, -1, -1, -1, -1, -1, -1, -1, -1, -1, -1>>,
    <<0, 10, 1, 0, 8, 10, 8, 11, 10, -1, -1, -1, -1, -1, -1, -1>>,
    <<3, 9, 0, 3, 11, 9, 11, 10, 9, -1, -1, -1, -1, -1, -1, -1>>,
    <<9, 8, 10, 10, 8, 11, -1, -1, -1, -1, -1, -1, -1, -1, -1, -1>>,
    <<4, 7, 8, -1, -1, -1, -1, -1, -1, -1, -1, -1, -1, -1, -1, -1>>,
    <<4, 3, 0, 7, 3, 4, -1, -1, -1, -1, -1, -1, -1, -1, -1, -1>>,
    <<0, 1, 9, 8, 4, 7, -1, -1, -1, -1, -1, -1, -1, -1, -1, -1>>,
    <<4, 1, 9, 4, 7, 1, 7, 3, 1, -1, -1, -1, -1, -1, -1, -1>>,
    <<1, 2, 10, 8, 4, 7, -1, -1, -1, -1, -1, -1, -1, -1, -1, -1>>,
    <<3, 4, 7, 3, 0, 4, 1, 2, 10, -1, -1, -1, -1, -1, -1, -1>>,
    <<9, 2, 10, 9, 0, 2, 8, 4, 7, -1, -1, -1, -1, -1, -1, -1>>,
    <<2, 10, 9, 2, 9, 7, 2, 7, 3, 7, 9, 4, -1, -1, -1, -1>>,
    <<8, 4, 7, 3, 11, 2, -1, -1, -1, -1, -1, -1, -1, -1, -1, -1>>,
    <<11, 4, 7, 11, 2, 4, 2, 0, 4, -1, -1, -1, -1, -1, -1, -1>>,
    <<9, 0, 1, 8, 4, 7, 2, 3, 11, -1, -1, -1, -1, -1, -1, -1>>,
    <<4, 7, 11, 9, 4, 11, 9, 11, 2, 9, 2, 1, -1, -1, -1, -1>>,
    <<3, 10, 1, 3, 11, 10, 7, 8, 4, -1, -1, -1, -1, -1, -1, -1>>,
    <<1, 11, 10, 1, 4, 11, 1, 0, 4, 7, 11, 4, -1, -1, -1, -1>>,
    <<4, 7, 8, 9, 0, 11, 9, 11, 10, 11, 0, 3, -1, -1, -1, -1>>,
    <<4, 7, 11, 4, 11, 9, 9, 11, 10, -1, -1, -1, -1, -1, -1, -1>>,
    <<9, 5, 4, -1, -1, -1, -1, -1, -1, -1, -1, -1, -1, -1, -1, -1>>,
    <<9, 5, 4, 0, 8, 3, -1, -1, -1, -1, -1, -1, -1, -1, -1, -1>>,
    <<0, 5, 4, 1, 5, 0, -1, -1, -1, -1, -1, -1, -1, -1, -1, -1>>,
    <<8, 5, 4, 8, 3, 5, 3, 1, 5, -1, -1, -1, -1, -1, -1, -1>>,
    <<1, 2, 10, 9, 5, 4, -1, -1, -1, -1, -1, -1, -1, -1, -1, -1>>,
    <<3, 0, 8, 1, 2, 10, 4, 9, 5, -1, -1, -1, -1, -1, -1, -1>>,
    <<5, 2, 10, 5, 4, 2, 4, 0, 2, -1, -1, -1, -1, -1, -1, -1>>,
    <<2, 10, 5, 3, 2, 5, 3, 5, 4, 3, 4, 8, -1, -1, -1, -1>>,
    <<9, 5, 4, 2, 3, 11, -1, -1, -1, -1, -1, -1, -1, -1, -1, -1>>,
    <<0, 11, 2, 0, 8, 11, 4, 9, 5, -1, -1, -1, -1, -1, -1, -1>>,
    <<0, 5, 4, 0, 1, 5, 2, 3, 11, -1, -1, -1, -1, -1, -1, -1>>,
    <<2, 1, 5, 2, 5, 8, 2, 8, 11, 4, 8, 5, -1, -1, -1, -1>>,
    <<10, 3, 11, 10, 1, 3, 9, 5, 4, -1, -1, -1, -1, -1, -1, -1>>,
    <<4, 9, 5, 0, 8, 1, 8, 10, 1, 8, 11, 10, -1, -1, -1, -1>>,
    <<5, 4, 0, 5, 0, 11, 5, 11, 10, 11, 0, 3, -1, -1, -1, -1>>,
    <<5, 4, 8, 5, 8, 10, 10, 8, 11, -1, -1, -1, -1, -1, -1, -1>>,
    <<9, 7, 8, 5, 7, 9, -1, -1, -1, -1, -1, -1, -1, -1, -1, -1>>,
    <<9, 3, 0, 9, 5, 3, 5, 7, 3, -1, -1, -1, -1, -1, -1, -1>>,
    <<0, 7, 8, 0, 1, 7, 1, 5, 7, -1, -1, -1, -1, -1, -1, -1>>,
    <<1, 5, 3, 3, 5, 7, -1, -1, -1, -1, -1, -1, -1, -1, -1, -1>>,
    <<9, 7, 8, 9, 5, 7, 10, 1, 2, -1, -1, -1, -1, -1, -1, -1>>,
    <<10, 1, 2, 9, 5, 0, 5, 3, 0, 5, 7, 3, -1, -1, -1, -1>>,
    <<8, 0, 2, 8, 2, 5, 8, 5, 7, 10, 5, 2, -1, -1, -1, -1>>,
    <<2, 10, 5, 2, 5, 3, 3, 5, 7, -1, -1, -1, -1, -1, -1, -1>>,
    <<7, 9, 5, 7, 8, 9, 3, 11, 2, -1, -1, -1, -1, -1, -1, -1>>,
    <<9, 5, 7, 9, 7, 2, 9, 2, 0, 2, 7, 11, -1, -1, -1, -1>>,
    <<2, 3, 11, 0, 1, 8, 1, 7, 8, 1, 5, 7, -1, -1, -1, -1>>,
    <<11, 2, 1, 11, 1, 7, 7, 1, 5, -1, -1, -1, -1, -1, -1, -1>>,
    <<9, 5, 8, 8, 5, 7, 10, 1, 3, 10, 3, 11, -1, -1, -1, -1>>,
    <<5, 7, 0, 5, 0, 9, 7, 11, 0, 1, 0, 10, 11, 10, 0, -1>>,
    <<11, 10, 0, 11, 0, 3, 10, 5, 0, 8, 0, 7, 5, 7, 0, -1>>,
    <<11, 10, 5, 7, 11, 5, -1, -1, -1, -1, -1, -1, -1, -1, -1, -1>>,
    <<10, 6, 5, -1, -1, -1, -1, -1, -1, -1, -1, -1, -1, -1, -1, -1>>,
    <<0, 8, 3, 5, 10, 6, -1, -1, -1, -1, -1, -1, -1, -1, -1, -1>>,
    <<9, 0, 1, 5, 10, 6, -1, -1, -1, -1, -1, -1, -1, -1, -1, -1>>,
    <<1, 8, 3, 1, 9, 8, 5, 10, 6, -1, -1, -1, -1, -1, -1, -1>>,
    <<1, 6, 5, 2, 6, 1, -1, -1, -1, -1, -1, -1, -1, -1, -1, -1>>,
    <<1, 6, 5, 1, 2, 6, 3, 0, 8, -1, -1, -1, -1, -1, -1, -1>>,
    <<9, 6, 5, 9, 0, 6, 0, 2, 6, -1, -1, -1, -1, -1, -1, -1>>,
    <<5, 9, 8, 5, 8, 2, 5, 2, 6, 3, 2, 8, -1, -1, -1, -1>>,
    <<2, 3, 11, 10, 6, 5, -1, -1, -1, -1, -1, -1, -1, -1, -1, -1>>,
    <<11, 0, 8, 11, 2, 0, 10, 6, 5, -1, -1, -1, -1, -1, -1, -1>>,
    <<0, 1, 9, 2, 3, 11, 5, 10, 6, -1, -1, -1, -1, -1, -1, -1>>,
    <<5, 10, 6, 1, 9, 2, 9, 11, 2, 9, 8, 11, -1, -1, -1, -1>>,
    <<6, 3, 11, 6, 5, 3, 5, 1, 3, -1, -1, -1, -1, -1, -1, -1>>,
    <<0, 8, 11, 0, 11, 5, 0, 5, 1, 5, 11, 6, -1, -1, -1, -1>>,
    <<3, 11, 6, 0, 3, 6, 0, 6, 5, 0, 5, 9, -1, -1, -1, -1>>,
    <<6, 5, 9, 6, 9, 11, 11, 9, 8, -1, -1, -1, -1, -1, -1, -1>>,
    <<5, 10, 6, 4, 7, 8, -1, -1, -1, -1, -1, -1, -1, -1, -1, -1>>,
    <<4, 3, 0, 4, 7, 3, 6, 5, 10, -1, -1, -1, -1, -1, -1, -1>>,
    <<1, 9, 0, 5, 10, 6, 8, 4, 7, -1, -1, -1, -1, -1, -1, -1>>,
    <<10, 6, 5, 1, 9, 7, 1, 7, 3, 7, 9, 4, -1, -1, -1, -1>>,
    <<6, 1, 2, 6, 5, 1, 4, 7, 8, -1, -1, -1, -1, -1, -1, -1>>,
    <<1, 2, 5, 5, 2, 6, 3, 0, 4, 3, 4, 7, -1, -1, -1, -1>>,
    <<8, 4, 7, 9, 0, 5, 0, 6, 5, 0, 2, 6, -1, -1, -1, -1>>,
    <<7, 3, 9, 7, 9, 4, 3, 2, 9, 5, 9, 6, 2, 6, 9, -1>>,
    <<3, 11, 2, 7, 8, 4, 10, 6, 5, -1, -1, -1, -1, -1, -1, -1>>,
    <<5, 10, 6, 4, 7, 2, 4, 2, 0, 2, 7, 11, -1, -1, -1, -1>>,
    <<0, 1, 9, 4, 7, 8, 2, 3, 11, 5, 10, 6, -1, -1, -1, -1>>,
    <<9, 2, 1, 9, 11, 2, 9, 4, 11, 7, 11, 4, 5, 10, 6, -1>>,
    <<8, 4, 7, 3, 11, 5, 3, 5, 1, 5, 11, 6, -1, -1, -1, -1>>,
    <<5, 1, 11, 5, 11, 6, 1, 0, 11, 7, 11, 4, 0, 4, 11, -1>>,
    <<0, 5, 9, 0, 6, 5, 0, 3, 6, 11, 6, 3, 8, 4, 7, -1>>,
    <<6, 5, 9, 6, 9, 11, 4, 7, 9, 7, 11, 9, -1, -1, -1, -1>>,
    <<10, 4, 9, 6, 4, 10, -1, -1, -1, -1, -1, -1, -1, -1, -1, -1>>,
    <<4, 10, 6, 4, 9, 10, 0, 8, 3, -1, -1, -1, -1, -1, -1, -1>>,
    <<10, 0, 1, 10, 6, 0, 6, 4, 0, -1, -1, -1, -1, -1, -1, -1>>,
    <<8, 3, 1, 8, 1, 6, 8, 6, 4, 6, 1, 10, -1, -1, -1, -1>>,
    <<1, 4, 9, 1, 2, 4, 2, 6, 4, -1, -1, -1, -1, -1, -1, -1>>,
    <<3, 0, 8, 1, 2, 9, 2, 4, 9, 2, 6, 4, -1, -1, -1, -1>>,
    <<0, 2, 4, 4, 2, 6, -1, -1, -1, -1, -1, -1, -1, -1, -1, -1>>,
    <<8, 3, 2, 8, 2, 4, 4, 2, 6, -1, -1, -1, -1, -1, -1, -1>>,
    <<10, 4, 9, 10, 6, 4, 11, 2, 3, -1, -1, -1, -1, -1, -1, -1>>,
    <<0, 8, 2, 2, 8, 11, 4, 9, 10, 4, 10, 6, -1, -1, -1, -1>>,
    <<3, 11, 2, 0, 1, 6, 0, 6, 4, 6, 1, 10, -1, -1, -1, -1>>,
    <<6, 4, 1, 6, 1, 10, 4, 8, 1, 2, 1, 11, 8, 11, 1, -1>>,
    <<9, 6, 4, 9, 3, 6, 9, 1, 3, 11, 6, 3, -1, -1, -1, -1>>,
    <<8, 11, 1, 8, 1, 0, 11, 6, 1, 9, 1, 4, 6, 4, 1, -1>>,
    <<3, 11, 6, 3, 6, 0, 0, 6, 4, -1, -1, -1, -1, -1, -1, -1>>,
    <<6, 4, 8, 11, 6, 8, -1, -1, -1, -1, -1, -1, -1, -1, -1, -1>>,
    <<7, 10, 6, 7, 8, 10, 8, 9, 10, -1, -1, -1, -1, -1, -1, -1>>,
    <<0, 7, 3, 0, 10, 7, 0, 9, 10, 6, 7, 10, -1, -1, -1, -1>>,
    <<10, 6, 7, 1, 10, 7, 1, 7, 8, 1, 8, 0, -1, -1, -1, -1>>,
    <<10, 6, 7, 10, 7, 1, 1, 7, 3, -1, -1, -1, -1, -1, -1, -1>>,
    <<1, 2, 6, 1, 6, 8, 1, 8, 9, 8, 6, 7, -1, -1, -1, -1>>,
    <<2, 6, 9, 2, 9, 1, 6, 7, 9, 0, 9, 3, 7, 3, 9, -1>>,
    <<7, 8, 0, 7, 0, 6, 6, 0, 2, -1, -1, -1, -1, -1, -1, -1>>,
    <<7, 3, 2, 6, 7, 2, -1, -1, -1, -1, -1, -1, -1, -1, -1, -1>>,
    <<2, 3, 11, 10, 6, 8, 10, 8, 9, 8, 6, 7, -1, -1, -1, -1>>,
    <<2, 0, 7, 2, 7, 11, 0, 9, 7, 6, 7, 10, 9, 10, 7, -1>>,
    <<1, 8, 0, 1, 7, 8, 1, 10, 7, 6, 7, 10, 2, 3, 11, -1>>,
    <<11, 2, 1, 11, 1, 7, 10, 6, 1, 6, 7, 1, -1, -1, -1, -1>>,
    <<8, 9, 6, 8, 6, 7, 9, 1, 6, 11, 6, 3, 1, 3, 6, -1>>,
    <<0, 9, 1, 11, 6, 7, -1, -1, -1, -1, -1, -1, -1, -1, -1, -1>>,
    <<7, 8, 0, 7, 0, 6, 3, 11, 0, 11, 6, 0, -1, -1, -1, -1>>,
    <<7, 11, 6, -1, -1, -1, -1, -1, -1, -1, -1, -1, -1, -1, -1, -1>>,
    <<7, 6, 11, -1, -1, -1, -1, -1, -1, -1, -1, -1, -1, -1, -1, -1>>,
    <<3, 0, 8, 11, 7, 6, -1, -1, -1, -1, -1, -1, -1, -1, -1, -1>>,
    <<0, 1, 9, 11, 7, 6, -1, -1, -1, -1, -1, -1, -1, -1, -1, -1>>,
    <<8, 1, 9, 8, 3, 1, 11, 7, 6, -1, -1, -1, -1, -1, -1, -1>>,
    <<10, 1, 2, 6, 11, 7, -1, -1, -1, -1, -1, -1, -1, -1, -1, -1>>,
    <<1, 2, 10, 3, 0, 8, 6, 11, 7, -1, -1, -1, -1, -1, -1, -1>>,
    <<2, 9, 0, 2, 10, 9, 6, 11, 7, -1, -1, -1, -1, -1, -1, -1>>,
    <<6, 11, 7, 2, 10, 3, 10, 8, 3, 10, 9, 8, -1, -1, -1, -1>>,
    <<7, 2, 3, 6, 2, 7, -1, -1, -1, -1, -1, -1, -1, -1, -1, -1>>,
    <<7, 0, 8, 7, 6, 0, 6, 2, 0, -1, -1, -1, -1, -1, -1, -1>>,
    <<2, 7, 6, 2, 3, 7, 0, 1, 9, -1, -1, -1, -1, -1, -1, -1>>,
    <<1, 6, 2, 1, 8, 6, 1, 9, 8, 8, 7, 6, -1, -1, -1, -1>>,
    <<10, 7, 6, 10, 1, 7, 1, 3, 7, -1, -1, -1, -1, -1, -1, -1>>,
    <<10, 7, 6, 1, 7, 10, 1, 8, 7, 1, 0, 8, -1, -1, -1, -1>>,
    <<0, 3, 7, 0, 7, 10, 0, 10, 9, 6, 10, 7, -1, -1, -1, -1>>,
    <<7, 6, 10, 7, 10, 8, 8, 10, 9, -1, -1, -1, -1, -1, -1, -1>>,
    <<6, 8, 4, 11, 8, 6, -1, -1, -1, -1, -1, -1, -1, -1, -1, -1>>,
    <<3, 6, 11, 3, 0, 6, 0, 4, 6, -1, -1, -1, -1, -1, -1, -1>>,
    <<8, 6, 11, 8, 4, 6, 9, 0, 1, -1, -1, -1, -1, -1, -1, -1>>,
    <<9, 4, 6, 9, 6, 3, 9, 3, 1, 11, 3, 6, -1, -1, -1, -1>>,
    <<6, 8, 4, 6, 11, 8, 2, 10, 1, -1, -1, -1, -1, -1, -1, -1>>,
    <<1, 2, 10, 3, 0, 11, 0, 6, 11, 0, 4, 6, -1, -1, -1, -1>>,
    <<4, 11, 8, 4, 6, 11, 0, 2, 9, 2, 10, 9, -1, -1, -1, -1>>,
    <<10, 9, 3, 10, 3, 2, 9, 4, 3, 11, 3, 6, 4, 6, 3, -1>>,
    <<8, 2, 3, 8, 4, 2, 4, 6, 2, -1, -1, -1, -1, -1, -1, -1>>,
    <<0, 4, 2, 4, 6, 2, -1, -1, -1, -1, -1, -1, -1, -1, -1, -1>>,
    <<1, 9, 0, 2, 3, 4, 2, 4, 6, 4, 3, 8, -1, -1, -1, -1>>,
    <<1, 9, 4, 1, 4, 2, 2, 4, 6, -1, -1, -1, -1, -1, -1, -1>>,
    <<8, 1, 3, 8, 6, 1, 8, 4, 6, 6, 10, 1, -1, -1, -1, -1>>,
    <<10, 1, 0, 10, 0, 6, 6, 0, 4, -1, -1, -1, -1, -1, -1, -1>>,
    <<4, 6, 3, 4, 3, 8, 6, 10, 3, 0, 3, 9, 10, 9, 3, -1>>,
    <<10, 9, 4, 6, 10, 4, -1, -1, -1, -1, -1, -1, -1, -1, -1, -1>>,
    <<4, 9, 5, 7, 6, 11, -1, -1, -1, -1, -1, -1, -1, -1, -1, -1>>,
    <<0, 8, 3, 4, 9, 5, 11, 7, 6, -1, -1, -1, -1, -1, -1, -1>>,
    <<5, 0, 1, 5, 4, 0, 7, 6, 11, -1, -1, -1, -1, -1, -1, -1>>,
    <<11, 7, 6, 8, 3, 4, 3, 5, 4, 3, 1, 5, -1, -1, -1, -1>>,
    <<9, 5, 4, 10, 1, 2, 7, 6, 11, -1, -1, -1, -1, -1, -1, -1>>,
    <<6, 11, 7, 1, 2, 10, 0, 8, 3, 4, 9, 5, -1, -1, -1, -1>>,
    <<7, 6, 11, 5, 4, 10, 4, 2, 10, 4, 0, 2, -1, -1, -1, -1>>,
    <<3, 4, 8, 3, 5, 4, 3, 2, 5, 10, 5, 2, 11, 7, 6, -1>>,
    <<7, 2, 3, 7, 6, 2, 5, 4, 9, -1, -1, -1, -1, -1, -1, -1>>,
    <<9, 5, 4, 0, 8, 6, 0, 6, 2, 6, 8, 7, -1, -1, -1, -1>>,
    <<3, 6, 2, 3, 7, 6, 1, 5, 0, 5, 4, 0, -1, -1, -1, -1>>,
    <<6, 2, 8, 6, 8, 7, 2, 1, 8, 4, 8, 5, 1, 5, 8, -1>>,
    <<9, 5, 4, 10, 1, 6, 1, 7, 6, 1, 3, 7, -1, -1, -1, -1>>,
    <<1, 6, 10, 1, 7, 6, 1, 0, 7, 8, 7, 0, 9, 5, 4, -1>>,
    <<4, 0, 10, 4, 10, 5, 0, 3, 10, 6, 10, 7, 3, 7, 10, -1>>,
    <<7, 6, 10, 7, 10, 8, 5, 4, 10, 4, 8, 10, -1, -1, -1, -1>>,
    <<6, 9, 5, 6, 11, 9, 11, 8, 9, -1, -1, -1, -1, -1, -1, -1>>,
    <<3, 6, 11, 0, 6, 3, 0, 5, 6, 0, 9, 5, -1, -1, -1, -1>>,
    <<0, 11, 8, 0, 5, 11, 0, 1, 5, 5, 6, 11, -1, -1, -1, -1>>,
    <<6, 11, 3, 6, 3, 5, 5, 3, 1, -1, -1, -1, -1, -1, -1, -1>>,
    <<1, 2, 10, 9, 5, 11, 9, 11, 8, 11, 5, 6, -1, -1, -1, -1>>,
    <<0, 11, 3, 0, 6, 11, 0, 9, 6, 5, 6, 9, 1, 2, 10, -1>>,
    <<11, 8, 5, 11, 5, 6, 8, 0, 5, 10, 5, 2, 0, 2, 5, -1>>,
    <<6, 11, 3, 6, 3, 5, 2, 10, 3, 10, 5, 3, -1, -1, -1, -1>>,
    <<5, 8, 9, 5, 2, 8, 5, 6, 2, 3, 8, 2, -1, -1, -1, -1>>,
    <<9, 5, 6, 9, 6, 0, 0, 6, 2, -1, -1, -1, -1, -1, -1, -1>>,
    <<1, 5, 8, 1, 8, 0, 5, 6, 8, 3, 8, 2, 6, 2, 8, -1>>,
    <<1, 5, 6, 2, 1, 6, -1, -1, -1, -1, -1, -1, -1, -1, -1, -1>>,
    <<1, 3, 6, 1, 6, 10, 3, 8, 6, 5, 6, 9, 8, 9, 6, -1>>,
    <<10, 1, 0, 10, 0, 6, 9, 5, 0, 5, 6, 0, -1, -1, -1, -1>>,
    <<0, 3, 8, 5, 6, 10, -1, -1, -1, -1, -1, -1, -1, -1, -1, -1>>,
    <<10, 5, 6, -1, -1, -1, -1, -1, -1, -1, -1, -1, -1, -1, -1, -1>>,
    <<11, 5, 10, 7, 5, 11, -1, -1, -1, -1, -1, -1, -1, -1, -1, -1>>,
    <<11, 5, 10, 11, 7, 5, 8, 3, 0, -1, -1, -1, -1, -1, -1, -1>>,
    <<5, 11, 7, 5, 10, 11, 1, 9, 0, -1, -1, -1, -1, -1, -1, -1>>,
    <<10, 7, 5, 10, 11, 7, 9, 8, 1, 8, 3, 1, -1, -1, -1, -1>>,
    <<11, 1, 2, 11, 7, 1, 7, 5, 1, -1, -1, -1, -1, -1, -1, -1>>,
    <<0, 8, 3, 1, 2, 7, 1, 7, 5, 7, 2, 11, -1, -1, -1, -1>>,
    <<9, 7, 5, 9, 2, 7, 9, 0, 2, 2, 11, 7, -1, -1, -1, -1>>,
    <<7, 5, 2, 7, 2, 11, 5, 9, 2, 3, 2, 8, 9, 8, 2, -1>>,
    <<2, 5, 10, 2, 3, 5, 3, 7, 5, -1, -1, -1, -1, -1, -1, -1>>,
    <<8, 2, 0, 8, 5, 2, 8, 7, 5, 10, 2, 5, -1, -1, -1, -1>>,
    <<9, 0, 1, 5, 10, 3, 5, 3, 7, 3, 10, 2, -1, -1, -1, -1>>,
    <<9, 8, 2, 9, 2, 1, 8, 7, 2, 10, 2, 5, 7, 5, 2, -1>>,
    <<1, 3, 5, 3, 7, 5, -1, -1, -1, -1, -1, -1, -1, -1, -1, -1>>,
    <<0, 8, 7, 0, 7, 1, 1, 7, 5, -1, -1, -1, -1, -1, -1, -1>>,
    <<9, 0, 3, 9, 3, 5, 5, 3, 7, -1, -1, -1, -1, -1, -1, -1>>,
    <<9, 8, 7, 5, 9, 7, -1, -1, -1, -1, -1, -1, -1, -1, -1, -1>>,
    <<5, 8, 4, 5, 10, 8, 10, 11, 8, -1, -1, -1, -1, -1, -1, -1>>,
    <<5, 0, 4, 5, 11, 0, 5, 10, 11, 11, 3, 0, -1, -1, -1, -1>>,
    <<0, 1, 9, 8, 4, 10, 8, 10, 11, 10, 4, 5, -1, -1, -1, -1>>,
    <<10, 11, 4, 10, 4, 5, 11, 3, 4, 9, 4, 1, 3, 1, 4, -1>>,
    <<2, 5, 1, 2, 8, 5, 2, 11, 8, 4, 5, 8, -1, -1, -1, -1>>,
    <<0, 4, 11, 0, 11, 3, 4, 5, 11, 2, 11, 1, 5, 1, 11, -1>>,
    <<0, 2, 5, 0, 5, 9, 2, 11, 5, 4, 5, 8, 11, 8, 5, -1>>,
    <<9, 4, 5, 2, 11, 3, -1, -1, -1, -1, -1, -1, -1, -1, -1, -1>>,
    <<2, 5, 10, 3, 5, 2, 3, 4, 5, 3, 8, 4, -1, -1, -1, -1>>,
    <<5, 10, 2, 5, 2, 4, 4, 2, 0, -1, -1, -1, -1, -1, -1, -1>>,
    <<3, 10, 2, 3, 5, 10, 3, 8, 5, 4, 5, 8, 0, 1, 9, -1>>,
    <<5, 10, 2, 5, 2, 4, 1, 9, 2, 9, 4, 2, -1, -1, -1, -1>>,
    <<8, 4, 5, 8, 5, 3, 3, 5, 1, -1, -1, -1, -1, -1, -1, -1>>,
    <<0, 4, 5, 1, 0, 5, -1, -1, -1, -1, -1, -1, -1, -1, -1, -1>>,
    <<8, 4, 5, 8, 5, 3, 9, 0, 5, 0, 3, 5, -1, -1, -1, -1>>,
    <<9, 4, 5, -1, -1, -1, -1, -1, -1, -1, -1, -1, -1, -1, -1, -1>>,
    <<4, 11, 7, 4, 9, 11, 9, 10, 11, -1, -1, -1, -1, -1, -1, -1>>,
    <<0, 8, 3, 4, 9, 7, 9, 11, 7, 9, 10, 11, -1, -1, -1, -1>>,
    <<1, 10, 11, 1, 11, 4, 1, 4, 0, 7, 4, 11, -1, -1, -1, -1>>,
    <<3, 1, 4, 3, 4, 8, 1, 10, 4, 7, 4, 11, 10, 11, 4, -1>>,
    <<4, 11, 7, 9, 11, 4, 9, 2, 11, 9, 1, 2, -1, -1, -1, -1>>,
    <<9, 7, 4, 9, 11, 7, 9, 1, 11, 2, 11, 1, 0, 8, 3, -1>>,
    <<11, 7, 4, 11, 4, 2, 2, 4, 0, -1, -1, -1, -1, -1, -1, -1>>,
    <<11, 7, 4, 11, 4, 2, 8, 3, 4, 3, 2, 4, -1, -1, -1, -1>>,
    <<2, 9, 10, 2, 7, 9, 2, 3, 7, 7, 4, 9, -1, -1, -1, -1>>,
    <<9, 10, 7, 9, 7, 4, 10, 2, 7, 8, 7, 0, 2, 0, 7, -1>>,
    <<3, 7, 10, 3, 10, 2, 7, 4, 10, 1, 10, 0, 4, 0, 10, -1>>,
    <<1, 10, 2, 8, 7, 4, -1, -1, -1, -1, -1, -1, -1, -1, -1, -1>>,
    <<4, 9, 1, 4, 1, 7, 7, 1, 3, -1, -1, -1, -1, -1, -1, -1>>,
    <<4, 9, 1, 4, 1, 7, 0, 8, 1, 8, 7, 1, -1, -1, -1, -1>>,
    <<4, 0, 3, 7, 4, 3, -1, -1, -1, -1, -1, -1, -1, -1, -1, -1>>,
    <<4, 8, 7, -1, -1, -1, -1, -1, -1, -1, -1, -1, -1, -1, -1, -1>>,
    <<9, 10, 8, 10, 11, 8, -1, -1, -1, -1, -1, -1, -1, -1, -1, -1>>,
    <<3, 0, 9, 3, 9, 11, 11, 9, 10, -1, -1, -1, -1, -1, -1, -1>>,
    <<0, 1, 10, 0, 10, 8, 8, 10, 11, -1, -1, -1, -1, -1, -1, -1>>,
    <<3, 1, 10, 11, 3, 10, -1, -1, -1, -1, -1, -1, -1, -1, -1, -1>>,
    <<1, 2, 11, 1, 11, 9, 9, 11, 8, -1, -1, -1, -1, -1, -1, -1>>,
    <<3, 0, 9, 3, 9, 11, 1, 2, 9, 2, 11, 9, -1, -1, -1, -1>>,
    <<0, 2, 11, 8, 0, 11, -1, -1, -1, -1, -1, -1, -1, -1, -1, -1>>,
    <<3, 2, 11, -1, -1, -1, -1, -1, -1, -1, -1, -1, -1, -1, -1, -1>>,
    <<2, 3, 8, 2, 8, 10, 10, 8, 9, -1, -1, -1, -1, -1, -1, -1>>,
    <<9, 10, 2, 0, 9, 2, -1, -1, -1, -1, -1, -1, -1, -1, -1, -1>>,
    <<2, 3, 8, 2, 8, 10, 0, 1, 8, 1, 10, 8, -1, -1, -1, -1>>,
    <<1, 10, 2, -1, -1, -1, -1, -1, -1, -1, -1, -1, -1, -1, -1, -1>>,
    <<1, 3, 8, 9, 1, 8, -1, -1, -1, -1, -1, -1, -1, -1, -1, -1>>,
    <<0, 9, 1, -1, -1, -1, -1, -1, -1, -1, -1, -1, -1, -1, -1, -1>>,
    <<0, 3, 8, -1, -1, -1, -1, -1, -1, -1, -1, -1, -1, -1, -1, -1>>,
    <<-1, -1, -1, -1, -1, -1, -1, -1, -1, -1, -1, -1, -1, -1, -1, -1>> >>

\* n & (1 << e)
BitSet(n, e) == (n \div (2 ^ e)) % 2 = 1

\* CubeIndex |= (1 << i) for CubeIndex = 0 at the start: written as a sum
RECURSIVE SumBits(_, _)
SumBits(bits, i) ==
    IF i > 7 THEN 0 ELSE (IF bits[i] THEN 2 ^ i ELSE 0) + SumBits(bits, i + 1)

\* the corner loop with bit (i + 1) % 8 set for corner i
CubeIndexShifted(bits) ==
    SumBits([i \in 0..7 |-> bits[(i + 7) % 8]], 0)

\* the corner loop: bit i of CubeIndex is set for each corner i that is inside
CubeIndexOf(bits) == SumBits(bits, 0)

\* for (e = 0; e < 12; e++) if (edges & (1 << e)): the edges interpolated
InterpolatedEdges(edges) == {e \in 0..11 : BitSet(edges, e)}

\* for (i = 0; TriTable[CubeIndex][i] != -1; i += 3): the edges whose
\* vertices are emitted, in order
RECURSIVE TriangleEdges(_, _)
TriangleEdges(row, i) ==
    IF row[i + 1] = -1 THEN <<>>
    ELSE <<row[i + 1], row[i + 2], row[i + 3]>> \o TriangleEdges(row, i + 3)

\* corner densities of one cell
CellDensityInputs == {-20000, -5, 20000}

NoInterp == [extractor |-> "none", done |-> FALSE]
NoCell == [extractor |-> "none", done |-> FALSE]
NoResult == [branch |-> "none"]

\* AVoxelChunk::GenerateMeshFromDensity interpolates one edge of a cell;
\* active: the corners of the edge differ in their CubeIndex bit
CallVertexInterp ==
    /\ interp.extractor = "AVoxelChunk"
    /\ ~interp.done
    /\ interp' = [interp EXCEPT
                    !.done = TRUE,
                    !.active = VoxelChunkCornerBit(interp.D1) # VoxelChunkCornerBit(interp.D2),
                    !.result = VertexInterp(interp.P1, interp.P2, interp.D1, interp.D2)]
    /\ UNCHANGED cell
    /\ UNCHANGED <<chunkVars, planetVars, lodVars, densityVars, idVars>>

\* FMarchingCubes::ProcessGridCells interpolates one edge of a cell
CallVertexInterpolation ==
    /\ interp.extractor = "FMarchingCubes"
    /\ ~interp.done
    /\ interp' = [interp EXCEPT
                    !.done = TRUE,
                    !.active = MarchingCubesCornerBit(interp.D1, interp.IsoLevel)
                                    # MarchingCubesCornerBit(interp.D2, interp.IsoLevel),
                    !.result = VertexInterpolation(interp.P1, interp.P2, interp.D1, interp.D2,
                                                   interp.IsoLevel)]
    /\ UNCHANGED cell
    /\ UNCHANGED <<chunkVars, planetVars, lodVars, densityVars, idVars>>

\* Config.CellSize: the edge length of a cell
CellSize == 10

\* P[i] of GenerateMeshFromDensity and CornerPositions[i] of ProcessGridCells
\* for the cell at the grid origin
CornerPosition(i) == [c \in 1..3 |-> CellSize * CornerOffsets[i + 1][c]]

\* EdgeVertex[e] = VertexInterp(P[EdgeIndex[e][0]], P[EdgeIndex[e][1]],
\*                              D[EdgeIndex[e][0]], D[EdgeIndex[e][1]])
\* and EdgeVertices[e] = VertexInterpolation(...) of ProcessGridCells
EdgeVertex(c, e) ==
    LET a == EdgeIndex[e + 1][1]
        b == EdgeIndex[e + 1][2]
    IN IF c.extractor = "AVoxelChunk"
       THEN VertexInterp(CornerPosition(a), CornerPosition(b), c.D[a], c.D[b])
       ELSE VertexInterpolation(CornerPosition(a), CornerPosition(b), c.D[a], c.D[b], c.IsoLevel)

\* what a cell with this CubeIndex emits once it is not skipped
CellOutput(c, CubeIndex) ==
    [c EXCEPT !.done = TRUE, !.CubeIndex = CubeIndex, !.skipped = FALSE,
              !.interpolated = InterpolatedEdges(EdgeTable[CubeIndex + 1]),
              !.EdgeVertex = [e \in InterpolatedEdges(EdgeTable[CubeIndex + 1]) |-> EdgeVertex(c, e)],
              !.emitted = TriangleEdges(TriTable[CubeIndex + 1], 0)]

\* a cell that is skipped: if (CubeIndex == 0 || CubeIndex == 255) continue,
\* if (Edges == 0) continue
CellSkipped(c, CubeIndex) ==
    [c EXCEPT !.done = TRUE, !.CubeIndex = CubeIndex, !.skipped = TRUE]

\* one iteration of the cell loop of AVoxelChunk::GenerateMeshFromDensity
GenerateMeshFromDensityCell ==
    /\ cell.extractor = "AVoxelChunk"
    /\ ~cell.done
    /\ LET CubeIndex == CubeIndexOf([i \in 0..7 |-> VoxelChunkCornerBit(cell.D[i])])
       IN cell' = IF CubeIndex = 0 \/ CubeIndex = 255
                  THEN CellSkipped(cell, CubeIndex)
                  ELSE CellOutput(cell, CubeIndex)
    /\ UNCHANGED interp
    /\ UNCHANGED <<chunkVars, planetVars, lodVars, densityVars, idVars>>

\* one iteration of the cell loop of FMarchingCubes::ProcessGridCells
ProcessGridCell ==
    /\ cell.extractor = "FMarchingCubes"
    /\ ~cell.done
    /\ LET CubeIndex == CubeIndexOf([i \in 0..7 |-> MarchingCubesCornerBit(cell.D[i], cell.IsoLevel)])
       IN cell' = IF EdgeTable[CubeIndex + 1] = 0
                  THEN CellSkipped(cell, CubeIndex)
                  ELSE CellOutput(cell, CubeIndex)
    /\ UNCHANGED interp
    /\ UNCHANGED <<chunkVars, planetVars, lodVars, densityVars, idVars>>

\* no edge interpolated and no cell processed
MeshIdle ==
    /\ interp = NoInterp
    /\ cell = NoCell

\* the arguments of one vertex interpolation call
InterpArguments ==
    {[extractor |-> x, P1 |-> P[1], P2 |-> P[2], D1 |-> D1, D2 |-> D2, IsoLevel |-> Iso,
      done |-> FALSE, active |-> FALSE, result |-> NoResult] :
        x \in {"FMarchingCubes"}, P \in EdgePositions, D1 \in DensityInputs,
        D2 \in DensityInputs, Iso \in IsoLevels}
    \cup
    {[extractor |-> x, P1 |-> P[1], P2 |-> P[2], D1 |-> D1, D2 |-> D2, IsoLevel |-> Iso,
      done |-> FALSE, active |-> FALSE, result |-> NoResult] :
        x \in {"AVoxelChunk"}, P \in EdgePositions, D1 \in DensityInputs,
        D2 \in DensityInputs, Iso \in {0}}

\* the corner densities of one cell about to be processed
CellArguments ==
    {[extractor |-> x, D |-> D, IsoLevel |-> 0, done |-> FALSE, CubeIndex |-> 0,
      skipped |-> FALSE, interpolated |-> {}, EdgeVertex |-> <<>>, emitted |-> <<>>] :
        x \in {"AVoxelChunk", "FMarchingCubes"}, D \in [0..7 -> CellDensityInputs]}

\* an extractor about to interpolate one edge or to process one cell
InitMesh ==
    \/ interp \in InterpArguments /\ cell = NoCell
    \/ interp = NoInterp /\ cell \in CellArguments

NextMesh ==
    \/ CallVertexInterp
    \/ CallVertexInterpolation
    \/ GenerateMeshFromDensityCell
    \/ ProcessGridCell

(***************************************************************************)
(* Part 6: FChunkId and its neighbour lookup                               *)
(***************************************************************************)

\* the ids GetNeighbor is called on have LOD 0..MaxNeighborLOD
MaxNeighborLOD == 2

\* FChunkId(): CubeFace(0), ChunkCoords(0, 0, 0), LOD(0)
FChunkIdDefault == [CubeFace |-> 0, X |-> 0, Y |-> 0, Z |-> 0, LOD |-> 0]

\* FChunkId(InCubeFace, InChunkCoords, InLOD)
FChunkId(InCubeFace, InX, InY, InZ, InLOD) ==
    [CubeFace |-> InCubeFace, X |-> InX, Y |-> InY, Z |-> InZ, LOD |-> InLOD]

\* FChunkId::IsValid(): FPlanetMath::FaceCount is the number of cube faces, 6
FChunkIdIsValid(Id) ==
    /\ Id.CubeFace < 6
    /\ Id.X >= 0
    /\ Id.Y >= 0
    /\ Id.Z = 0
    /\ Id.LOD >= 0

\* int32 ChunksPerFace = FMath::Pow(2, LOD)
ChunksPerFaceAt(LOD) == 2 ^ LOD

\* FChunkId::GetNeighbor(DeltaX, DeltaY) on Id
GetNeighbor(Id, DeltaX, DeltaY) ==
    LET ChunksPerFace == ChunksPerFaceAt(Id.LOD)
        NewX == Id.X + DeltaX
        NewY == Id.Y + DeltaY
        NewFace == Id.CubeFace
    IN IF NewX < 0 \/ NewX >= ChunksPerFace \/ NewY < 0 \/ NewY >= ChunksPerFace
       THEN FChunkIdDefault
       ELSE FChunkId(NewFace, NewX, NewY, 0, Id.LOD)

\* the ids of the chunks of the face grids: every face, every LOD up to the
\* bound, every cell of the 2^LOD x 2^LOD grid
GridChunkIds ==
    {Id \in [CubeFace : 0..5, X : 0..(2 ^ MaxNeighborLOD - 1),
             Y : 0..(2 ^ MaxNeighborLOD - 1), Z : {0}, LOD : 0..MaxNeighborLOD] :
        Id.X < 2 ^ Id.LOD /\ Id.Y < 2 ^ Id.LOD}

\* the steps to a neighbour: the eight adjacent cells and the cell itself
NeighborDeltas == (-1)..1

NoNeighbor == [done |-> FALSE, called |-> FALSE]

\* a call of GetNeighbor: the id returned
CallGetNeighbor ==
    /\ neighbor.called
    /\ ~neighbor.done
    /\ neighbor' = [neighbor EXCEPT !.done = TRUE,
                        !.result = GetNeighbor(neighbor.Id, neighbor.DeltaX, neighbor.DeltaY)]
    /\ UNCHANGED <<chunkVars, planetVars, lodVars, densityVars, meshVars>>

\* no neighbour looked up
IdIdle == neighbor = NoNeighbor

\* the id GetNeighbor is called on and its two arguments
InitId ==
    neighbor \in {[Id |-> Id, DeltaX |-> dx, DeltaY |-> dy, called |-> TRUE,
                    done |-> FALSE, result |-> FChunkIdDefault] :
                        Id \in GridChunkIds, dx \in NeighborDeltas, dy \in NeighborDeltas}

NextId == CallGetNeighbor

\* the chunk manager while only the streaming controller runs: no chunk created
ManagerIdle ==
    /\ Chunks = [id \in ChunkIds |-> NoChunk]
    /\ TotalChunksCreated = 0
    /\ OwnerPlanetRadius = PlanetRadius
    /\ lastCall = NoCall

\* the streaming controller while only the chunk manager runs: one of its
\* initial states, no frame ticked
PlanetIdle ==
    /\ InitPlanet
    /\ observer = 0
    /\ Config = [ChunksToSpawnPerFrame |-> 1, MaxConcurrentChunkGenerations |-> 1,
                 ChunksMeshUpdatesPerFrame |-> 1]

\* the chunk entity and its manager, driven by their owner
InitSpecChunk == InitChunk /\ PlanetIdle /\ LODIdle /\ InitDensity /\ MeshIdle /\ IdIdle
SpecChunk == InitSpecChunk /\ [][NextChunk]_vars

\* the same with the owner calling Update once per frame, for ever
SpecChunkLive == InitSpecChunk /\ [][NextChunk]_vars /\ WF_vars(Update)

\* the LOD pass on one chunk position
InitSpecLOD == ManagerIdle /\ PlanetIdle /\ InitLOD /\ InitDensity /\ MeshIdle /\ IdIdle
SpecLOD == InitSpecLOD /\ [][NextLOD]_vars

\* the density generators
InitSpecDensity == ManagerIdle /\ PlanetIdle /\ LODIdle /\ InitDensity /\ MeshIdle /\ IdIdle
SpecDensity == InitSpecDensity /\ [][NextDensity]_vars

\* the mesh extractors
InitSpecMesh == ManagerIdle /\ PlanetIdle /\ LODIdle /\ InitDensity /\ InitMesh /\ IdIdle
SpecMesh == InitSpecMesh /\ [][NextMesh]_vars

\* the streaming controller and its chunk actors
Init == ManagerIdle /\ InitPlanet /\ LODIdle /\ InitDensity /\ MeshIdle /\ IdIdle
Spec == Init /\ [][NextPlanet]_vars

\* FChunkId::GetNeighbor on the ids of the face grids
InitSpecId == ManagerIdle /\ PlanetIdle /\ LODIdle /\ InitDensity /\ MeshIdle /\ InitId
SpecId == InitSpecId /\ [][NextId]_vars

(***************************************************************************)
(* Properties of FChunk and FChunkManager (specification SpecChunk)        *)
(***************************************************************************)

\* the transition table of the chunk lifecycle
PermittedTransitions ==
    {<<"Unloaded", "Requested">>, <<"Requested", "Generating">>, <<"Requested", "Unloaded">>,
     <<"Generating", "Ready">>, <<"Generating", "Unloaded">>, <<"Ready", "Visible">>,
     <<"Ready", "Unloading">>, <<"Visible", "Unloading">>, <<"Unloading", "Unloaded">>}

\* the last step was TransitionToState(to) on a chunk in state from
TransitionAttempted == lastCall.op = "TransitionToState"

\* C1: TransitionToState(to) on a chunk in state `from` changes the state to
\* `to` exactly when (from, to) is one of the nine permitted pairs; hence one
\* call takes Unloaded only to Requested and Visible only to Unloading.
C1_TransitionIffPermitted ==
    TransitionAttempted =>
        LET after == Chunks[lastCall.id].State
        IN /\ (after = lastCall.to /\ after # lastCall.from)
                <=> (<<lastCall.from, lastCall.to>> \in PermittedTransitions)
           /\ lastCall.from = "Unloaded" => after \in {"Unloaded", "Requested"}
           /\ lastCall.from = "Visible" => after \in {"Visible", "Unloading"}

\* a Visible chunk was taken to Unloading
C1_Witness ==
    /\ TransitionAttempted
    /\ lastCall.from = "Visible"
    /\ lastCall.to = "Unloading"
    /\ Chunks[lastCall.id].State = "Unloading"

\* C2 (as the code has it): a transition attempt outside the table returns
\* nothing (the function is void), writes an error line, and leaves the
\* chunk's State, GenerationId, mesh payload and render proxy as they were.
C2_InvalidTransitionLeavesChunk ==
    (TransitionAttempted /\ <<lastCall.from, lastCall.to>> \notin PermittedTransitions) =>
        /\ Chunks[lastCall.id] = lastCall.before
        /\ lastCall.errorLogged
        /\ lastCall.returned = "void"

\* a chunk carrying a mesh, a proxy and a raised GenerationId was asked for a
\* transition outside the table
C2_Witness ==
    /\ TransitionAttempted
    /\ <<lastCall.from, lastCall.to>> \notin PermittedTransitions
    /\ lastCall.from # lastCall.to
    /\ lastCall.before.GenerationId > 0
    /\ lastCall.before.MeshData = "valid"
    /\ lastCall.before.RenderProxy = "proxy"

\* C2 as stated: the attempt outside the table returns failure to the caller
\* and leaves the chunk unchanged.
C2_ReturnsFailure ==
    (TransitionAttempted /\ <<lastCall.from, lastCall.to>> \notin PermittedTransitions) =>
        /\ lastCall.returned = "failure"
        /\ Chunks[lastCall.id] = lastCall.before

\* C6: every request to generate a chunk's mesh (FChunkManager::Update handing
\* a Requested chunk to GenerateChunkMesh) increments the chunk's
\* GenerationId, and no step decreases a chunk's GenerationId.
C6_RequestIncrementsGenerationId ==
    [][\A id \in ChunkIds :
        Chunks[id] # NoChunk =>
            /\ Chunks'[id].GenerationId >= Chunks[id].GenerationId
            /\ (lastCall'.op = "Update" /\ Chunks[id].State = "Requested")
                    => Chunks'[id].GenerationId = Chunks[id].GenerationId + 1]_vars

(***************************************************************************)
(* Properties of ACubeSpherePlanet and AVoxelChunk (specification Spec)    *)
(***************************************************************************)

\* the chunk actor of slot i is alive
Alive(i) == actors[i].alive

\* tasks started whose completion callback has not run
InFlight == Cardinality(tasks) + deadTasks

\* the generation the actor of slot i requested last (the actor has no
\* GenerationId field: the ordinal of its last GenerateChunkAsync call)
CurrentGeneration(i) == actors[i].requests

\* C3: when the completion callback of a task runs, its mesh is stored only if
\* the generation the task was started for is the chunk's current one; a stale
\* result is discarded, leaving the chunk's mesh and the queues unchanged.
C3_StaleResultDiscarded ==
    [][\A t \in tasks :
        (GenerationCallback(t) /\ t.gen # CurrentGeneration(t.chunk))
            => UNCHANGED <<actors, MeshUpdateQueue, ChunkSpawnQueue>>]_vars

\* C4: the mesh a chunk renders is the mesh of its most recently requested
\* generation, or no mesh at all.
C4_RenderedMeshIsLatest ==
    \A i \in Slots :
        Alive(i) => actors[i].Section \in {NoSection, EmptyMesh, CurrentGeneration(i)}

\* C5: a chunk whose second request was issued while its first task was in
\* flight shows, once both callbacks have run and its uploads are done, the
\* mesh of the second request.
C5_SecondRequestWins ==
    \A i \in Slots :
        (/\ Alive(i)
         /\ actors[i].overlapped
         /\ CurrentGeneration(i) = 2
         /\ ~\E t \in tasks : t.chunk = i
         /\ ~\E k \in 1..Len(MeshUpdateQueue) : MeshUpdateQueue[k] = i)
        => actors[i].Section = 2

\* C7: at every moment at most MaxConcurrentChunkGenerations tasks are in flight.
C7_InFlightAtMostM == InFlight <= Config.MaxConcurrentChunkGenerations

\* C8 (as the code has it): one call of ProcessSpawnQueue makes at most
\* ChunksToSpawnPerFrame spawn attempts; popped indices that are dropped are
\* not counted, so the call pops at most N indices beyond the dropped ones.
C8_SpawnAttemptsAtMostN ==
    frame.popped - frame.dropped <= Config.ChunksToSpawnPerFrame

\* a call popped more than N indices, the surplus being dropped ones
C8_Witness ==
    /\ phase = "spawn"
    /\ frame.popped > Config.ChunksToSpawnPerFrame
    /\ frame.popped - frame.dropped = Config.ChunksToSpawnPerFrame

\* C8 as stated: one call of ProcessSpawnQueue pops at most N indices, spawned
\* or dropped.
C8_PoppedAtMostN == frame.popped <= Config.ChunksToSpawnPerFrame

\* C9: an index popped while its chunk location is farther from the observer
\* than the render distance is dropped: no chunk actor appears, no task is
\* started, the in-flight counter keeps its value, and the slot has no active
\* chunk and is no longer pending.
C9_OutOfRangeDropped ==
    [][(/\ phase = "spawn"
        /\ Len(ChunkSpawnQueue) > 0
        /\ ChunkSpawnQueue' = PopRest(ChunkSpawnQueue)
        /\ DistSq(PopValue(ChunkSpawnQueue), observer) > Square(RenderDistance))
       => LET ChunkIndex == PopValue(ChunkSpawnQueue)
          IN /\ actors' = actors
             /\ tasks' = tasks
             /\ deadTasks' = deadTasks
             /\ ActiveGenerationTasks' = ActiveGenerationTasks
             /\ ChunkInfos'[ChunkIndex].ActiveChunk = NoActor
             /\ ~ChunkInfos'[ChunkIndex].bPendingSpawn]_vars

\* an index was popped out of range and dropped, its slot empty and not pending
C9_Witness ==
    /\ phase = "spawn"
    /\ frame.dropped > 0
    /\ \E i \in Slots :
        /\ OutOfRange(i)
        /\ ChunkInfos[i].ActiveChunk = NoActor
        /\ ~ChunkInfos[i].bPendingSpawn
        /\ ChunkInfos[i].LODLevel # -1

\* C10: one call of ProcessMeshUpdateQueue removes at most
\* ChunksMeshUpdatesPerFrame entries from MeshUpdateQueue and makes at most
\* that many uploads.
C10_UploadsAtMostK ==
    /\ frame.removed <= Config.ChunksMeshUpdatesPerFrame
    /\ frame.uploaded <= Config.ChunksMeshUpdatesPerFrame

\* a call used its whole budget of one upload with an entry left in the queue
C10_Witness ==
    /\ phase = "upload"
    /\ Config.ChunksMeshUpdatesPerFrame = 1
    /\ frame.removed = 1
    /\ frame.uploaded = 1
    /\ Len(MeshUpdateQueue) > 0

\* C11: MeshUpdateQueue is first-in-first-out: the entry a call of
\* ProcessMeshUpdateQueue removes and uploads is the one appended earliest, so
\* with chunk A's completion queued before chunk B's, B is not uploaded while
\* A waits.
C11_UploadsInCompletionOrder ==
    [][(/\ phase = "upload"
        /\ Len(MeshUpdateQueue) >= 2
        /\ Len(MeshUpdateQueue') = Len(MeshUpdateQueue) - 1
        /\ MeshUpdateQueue[1] # DeadRef
        /\ MeshUpdateQueue[Len(MeshUpdateQueue)] # DeadRef
        /\ MeshUpdateQueue[1] # MeshUpdateQueue[Len(MeshUpdateQueue)])
       => /\ MeshUpdateQueue' = Tail(MeshUpdateQueue)
          /\ actors'[MeshUpdateQueue[1]].Section = actors[MeshUpdateQueue[1]].GeneratedMeshData]_vars

\* the step is the thread-pool lambda of some task finishing
WorkerStep ==
    \E t \in tasks :
        /\ t.stage = "worker"
        /\ tasks' = (tasks \ {t}) \cup {[t EXCEPT !.stage = "posted"]}

\* the step hands the result of some task to its chunk: the mesh is stored or
\* the chunk is queued for upload
CompletionStep ==
    \/ Len(MeshUpdateQueue') > Len(MeshUpdateQueue)
    \/ \E i \in Slots :
        /\ Alive(i)
        /\ actors'[i].alive
        /\ actors'[i].GeneratedMeshData # actors[i].GeneratedMeshData
        /\ actors'[i].GeneratedMeshData # EmptyMesh

\* C12: a step of a worker thread leaves the chunk collection, the spawn
\* queue, the mesh-ready queue, the in-flight counter and every field of every
\* chunk as they were; a task's result reaches shared state only in its
\* completion callback, which the main thread runs (between two passes of a
\* frame, never inside one) after the worker posted it, once per task.
C12_WorkersTouchNoSharedState ==
    [][/\ WorkerStep =>
            UNCHANGED <<ChunkInfos, ChunkSpawnQueue, MeshUpdateQueue,
                        ActiveGenerationTasks, actors>>
       /\ CompletionStep =>
            /\ phase = "idle"
            /\ phase' = "idle"
            /\ \E t \in tasks :
                /\ t.stage = "posted"
                /\ tasks' = tasks \ {t}
                /\ \A u \in tasks' : u.chunk # t.chunk \/ u.gen # t.gen]_vars

\* a worker finished in the middle of a frame's passes and its callback waits
\* for the main thread, next to a task still running on its worker
C12_Witness ==
    /\ phase # "idle"
    /\ \E t \in tasks : t.stage = "posted" /\ Alive(t.chunk)
    /\ \E t \in tasks : t.stage = "worker"

\* the step is one call of UpdateLODAndStreaming
FrameUpdateStep == phase = "idle" /\ phase' = "spawn"

\* the location of slot i is farther from the observer than RenderDistance
BeyondRenderDistance(i) == DistSq(i, observer) > Square(RenderDistance)

DespawnDistance == (11 * RenderDistance) \div 10

\* the location of slot i is farther from the observer than 1.1 RenderDistance
BeyondDespawnDistance(i) == DistSq(i, observer) > Square(DespawnDistance)

\* the observer's distance to the surface is RenderDistance or more
ObserverOutOfChunkRange == Abs(observer) - PlanetRadius >= RenderDistance

MainThreadStep ==
    \/ ProcessSpawnQueueIteration
    \/ ProcessSpawnQueueReturn
    \/ ProcessMeshUpdateQueueIteration
    \/ ProcessMeshUpdateQueueReturn

\* an upper bound on the main-thread steps left in the current frame
FrameStepsLeft ==
    CASE phase = "spawn" -> Len(ChunkSpawnQueue) + Len(MeshUpdateQueue) + 2
      [] phase = "upload" -> Len(MeshUpdateQueue) + 1
      [] OTHER -> 0

\* C17: the per-frame update never blocks. The LOD/streaming pass is one
\* step; in the spawn-queue pass and the upload pass the main thread always has
\* a next step, whatever the generation tasks are doing, and each of its steps
\* lowers a bound on the steps left in the frame (every loop iteration removes
\* one queue entry), so both loops end and the frame finishes. A worker
\* step changes nothing the main thread's progress depends on.
C17_FrameNeverBlocks ==
    /\ [](phase # "idle" => ENABLED MainThreadStep)
    /\ [][/\ (phase = "idle" /\ phase' # "idle") =>
                phase' = "spawn" /\ FrameStepsLeft' <= NumChunks + MaxMeshQueue + 2
          /\ (phase # "idle" /\ ~WorkerStep) =>
                FrameStepsLeft' >= 0 /\ FrameStepsLeft' < FrameStepsLeft
          /\ (phase # "idle" /\ WorkerStep) =>
                UNCHANGED <<phase, ChunkSpawnQueue, MeshUpdateQueue, ActiveGenerationTasks,
                            SpawnedThisFrame, ProcessedCount>>]_vars

\* the spawn-queue pass has a full queue to work on and its budget is not
\* used up, while generation tasks are running on worker threads
C17_Witness ==
    /\ phase = "spawn"
    /\ Len(ChunkSpawnQueue) >= 2
    /\ frame.popped >= 1
    /\ SpawnLoopCondition
    /\ \E t \in tasks : t.stage = "worker"

\* no valid transform can be computed for id: the planet has no positive
\* radius, or the id names a negative LOD
TransformCannotBeValid(id) == OwnerPlanetRadius <= 0 \/ id.LOD < 0

\* C18: FChunkManager::CreateChunk for an id whose transform cannot be
\* computed as valid creates nothing: the chunk map gets no entry, the
\* created-chunk counter keeps its value and every existing chunk stays as it
\* was.
C18_InvalidTransformCreatesNothing ==
    [][\A id \in ChunkIds :
        (/\ lastCall'.op = "CreateChunk"
         /\ lastCall'.id = id
         /\ TransformCannotBeValid(id))
        => UNCHANGED <<Chunks, TotalChunksCreated>>]_vars

\* CreateChunk was just refused for an id with a negative LOD while the
\* manager holds a chunk it created before
C18_Witness ==
    /\ lastCall.op = "CreateChunk"
    /\ TransformCannotBeValid(lastCall.id)
    /\ Chunks[lastCall.id] = NoChunk
    /\ TotalChunksCreated >= 1
    /\ \E other \in ChunkIds : Chunks[other] # NoChunk /\ Chunks[other].State # "Requested"

\* C19: a chunk whose generation task posted an empty mesh (no vertices, no
\* triangles) is never uploaded: its mesh component never gets a section
\* created from the empty arrays.
C19_EmptyMeshNeverUploaded ==
    \A i \in Slots :
        (Alive(i) /\ i \in EmptyMeshSlots) => actors[i].Section = NoSection

(***************************************************************************)
(* Properties of the LOD pass on one chunk position (specification         *)
(* SpecLOD)                                                                *)
(***************************************************************************)

\* the last step was a frame update that ran the per-chunk pass on a chunk
\* that existed
FrameOnExistingChunk ==
    /\ lodFrame.fresh
    /\ lodFrame.before.ActiveChunk
    /\ Abs(lodObserver) - PlanetRadius < RenderDistance

\* the observer's distance to the watched chunk in the last frame
ChunkDistance == AxisDist(watched, lodObserver)

\* the activation distance of tier c in the table in use
ActivationDistance(c) == SettingsOf(bAutoLOD)[c + 1].Distance

\* C13: for a chunk that exists at tier c, a frame update moves it to tier
\* c-1 exactly when the distance is strictly less than the activation distance
\* of tier c-1, to tier c+1 exactly when the distance is strictly greater than
\* 1.1 times the activation distance of tier c, and leaves the tier at c at
\* every distance in between.
C13_TierChangesOnlyAcrossThresholds ==
    FrameOnExistingChunk =>
        LET c == lodFrame.before.LODLevel
            Finer == c > 0 /\ ChunkDistance < ActivationDistance(c - 1)
            Coarser == /\ c < Len(SettingsOf(bAutoLOD)) - 1
                       /\ 10 * ChunkDistance > 11 * ActivationDistance(c)
        IN /\ Finer => ChunkInfo.ActiveChunk /\ ChunkInfo.LODLevel = c - 1
           /\ Coarser => ChunkInfo.ActiveChunk /\ ChunkInfo.LODLevel = c + 1
           /\ (~Finer /\ ~Coarser) => ChunkInfo.LODLevel = c

\* a chunk of the middle tier was updated at a distance beyond its own
\* activation distance but within 1.1 times it, and kept its tier
C13_Witness ==
    /\ FrameOnExistingChunk
    /\ lodFrame.before.LODLevel = 1
    /\ ChunkDistance > ActivationDistance(1)
    /\ 10 * ChunkDistance <= 11 * ActivationDistance(1)
    /\ ChunkInfo.ActiveChunk
    /\ ChunkInfo.LODLevel = 1

\* the distance to the watched chunk has been alternating, frame by frame,
\* between one unit less and one unit more than a downgrade boundary
Oscillating == oscillation.boundary # 0

\* the tier whose downgrade boundary the distance alternates around
BoundaryTier ==
    CHOOSE c \in 0..(Len(SettingsOf(bAutoLOD)) - 2) :
        (11 * ActivationDistance(c)) \div 10 = oscillation.boundary

\* C14 as stated: while the distance alternates between d-1 and d+1 around a
\* downgrade boundary d, the chunk's LOD changes at most once.
C14_AtMostOneChange ==
    Oscillating => oscillation.changes <= 1

\* C14: while the distance alternates between d-1 and d+1 around the downgrade
\* boundary d of tier c, the chunk never returns to a tier it has left (its
\* LOD does not flip back and forth), and if it was at tier c or a coarser
\* tier when the alternation began its LOD changes at most once.
C14_NoFlipFlop ==
    Oscillating =>
        /\ ChunkInfo.ActiveChunk
        /\ ChunkInfo.LODLevel \notin oscillation.left
        /\ oscillation.start >= BoundaryTier => oscillation.changes <= 1

\* the alternation around the boundary of the chunk's own tier has lasted
\* MaxOscillationFrames frames, in which the chunk was downgraded once
C14_Witness ==
    /\ Oscillating
    /\ oscillation.frames = MaxOscillationFrames
    /\ oscillation.start = BoundaryTier
    /\ oscillation.changes = 1
    /\ ChunkInfo.LODLevel = BoundaryTier + 1

\* the last step was a frame update and the watched chunk is the one nearest
\* to the observer (the +X face, the observer on the +X side)
FrameSeenFromNearestChunk ==
    /\ lodFrame.fresh
    /\ watched = 1
    /\ lodObserver >= 0

\* the observer's distance to the surface in the last frame
SurfaceDistance == Max(0, lodObserver - PlanetRadius)

\* the far model is shown
FarModelShown == ~FarModelHidden

\* the terrain below the observer is represented by a chunk: the nearest
\* chunk exists or is queued to be spawned
NearestChunkShown == ChunkInfo.ActiveChunk \/ ChunkInfo.bPendingSpawn

\* after a frame update the far model is shown beyond 75% of RenderDistance
\* and hidden below, the nearest chunk is shown below 100% of RenderDistance and
\* gone from there on, so that between the two both are shown
FarModelAndChunksOverlap ==
    FrameSeenFromNearestChunk =>
        /\ 4 * SurfaceDistance > 3 * RenderDistance => FarModelShown
        /\ 4 * SurfaceDistance < 3 * RenderDistance => ~FarModelShown
        /\ SurfaceDistance < RenderDistance => NearestChunkShown
        /\ SurfaceDistance >= RenderDistance => ~NearestChunkShown
        /\ FarModelShown \/ NearestChunkShown

\* C16: the far model is shown from 75% of the render distance outward,
\* chunks are shown up to 100% of it, inside that band both are shown, and at no
\* observer distance is neither representation of the planet shown.
C16_NoDistanceWithoutRepresentation == FarModelAndChunksOverlap

\* with the LOD table PrepareGeneration derives under bAutoLOD the overlap holds
OverlapWithAutoLOD == bAutoLOD => FarModelAndChunksOverlap

(***************************************************************************)
(* Properties of the density generators (specification SpecDensity)        *)
(***************************************************************************)

\* C20: after construction with a non-positive planet radius or voxel size,
\* the parameters a density generator keeps, and every later sample computes
\* with, satisfy radius > 0, voxel size > 0 and core radius <= 0.9 x radius.
C20_ParametersClampedToSafeMinimums ==
    /\ generator # NoGenerator =>
        /\ generator.PlanetRadius > 0
        /\ generator.class = "PlanetDensityGenerator" => generator.VoxelSize > 0
        /\ generator.class = "FDensityGenerator" =>
                10 * generator.CoreRadius <= 9 * generator.PlanetRadius
    /\ lastSample # NoSample =>
        /\ lastSample.PlanetRadius > 0
        /\ lastSample.class = "PlanetDensityGenerator" => lastSample.VoxelSize > 0
        /\ lastSample.finite

\* FDensityGenerator alone keeps the invariant of its parameters
FDensityGeneratorClamps ==
    generator.class = "FDensityGenerator" =>
        /\ generator.PlanetRadius >= MinPlanetRadius
        /\ generator.CoreRadius >= 0
        /\ 10 * generator.CoreRadius <= 9 * generator.PlanetRadius
        /\ generator.TerrainNoiseAmplitude >= 0

(***************************************************************************)
(* Properties of the mesh extractors (specification SpecMesh)              *)
(***************************************************************************)

\* the vertex lies between the two corner positions in every coordinate
VertexBetweenCorners ==
    \A c \in 1..3 :
        LET lo == IF interp.P1[c] < interp.P2[c] THEN interp.P1[c] ELSE interp.P2[c]
            hi == IF interp.P1[c] < interp.P2[c] THEN interp.P2[c] ELSE interp.P1[c]
        IN /\ interp.result.vertex.den > 0
           /\ interp.result.vertex.den * lo <= interp.result.vertex.num[c]
           /\ interp.result.vertex.num[c] <= interp.result.vertex.den * hi

\* the interpolation parameter, where one was computed, is in [0, 1]
ParameterInUnitInterval ==
    interp.result.branch = "interpolated" =>
        /\ interp.result.T.den > 0
        /\ 0 <= interp.result.T.num
        /\ interp.result.T.num <= interp.result.T.den

\* C21: for every active cell edge and all corner densities, the parameter t
\* that places the surface vertex is in [0, 1] and the vertex lies on the
\* segment between the edge's two corner positions, in both extractors.
C21_VertexOnEdgeSegment ==
    (interp.done /\ interp.active) =>
        ParameterInUnitInterval /\ VertexBetweenCorners

\* FMarchingCubes::VertexInterpolation alone keeps the vertex on the segment,
\* on every edge
MarchingCubesVertexOnEdgeSegment ==
    (interp.done /\ interp.extractor = "FMarchingCubes") =>
        ParameterInUnitInterval /\ VertexBetweenCorners

\* an edge whose corner densities are equal was interpolated
EqualCornerDensities == interp.done /\ interp.D1 = interp.D2

\* the vertex returned is the midpoint of the edge
VertexIsMidpoint ==
    /\ interp.result.vertex.den # 0
    /\ \A c \in 1..3 :
        2 * interp.result.vertex.num[c] = interp.result.vertex.den * (interp.P1[c] + interp.P2[c])

\* the vertex returned is the first corner of the edge
VertexIsFirstCorner ==
    /\ interp.result.vertex.den # 0
    /\ \A c \in 1..3 : interp.result.vertex.num[c] = interp.result.vertex.den * interp.P1[c]

\* no quotient was formed: the branch that divides was not taken
NoDivision == interp.result.branch # "interpolated"

BothAtIsoLevel ==
    /\ interp.extractor = "FMarchingCubes"
    /\ interp.D1 = interp.IsoLevel

EqualDensitiesInVoxelChunk ==
    EqualCornerDensities /\ interp.extractor = "AVoxelChunk" /\ interp.result.branch = "midpoint"

\* a cell was processed and not skipped
CellEmitted == cell.done /\ ~cell.skipped

\* corner c of the cell is classified inside: its density is below the
\* iso-level by more than the classification epsilon
ClassifiedInside(c) == cell.D[c] < cell.IsoLevel - ClassificationEpsilon

\* edge e of the cell joins an inside corner to an outside corner
JoinsInsideToOutside(e) ==
    ClassifiedInside(EdgeIndex[e + 1][1]) # ClassifiedInside(EdgeIndex[e + 1][2])

\* the vertex interpolated on edge e lies between the two corners of the edge
\* in every coordinate
VertexOnCellEdge(e) ==
    LET v == cell.EdgeVertex[e].vertex
        Pa == [c \in 1..3 |-> CellSize * CornerOffsets[EdgeIndex[e + 1][1] + 1][c]]
        Pb == [c \in 1..3 |-> CellSize * CornerOffsets[EdgeIndex[e + 1][2] + 1][c]]
    IN \A c \in 1..3 :
        LET lo == IF Pa[c] < Pb[c] THEN Pa[c] ELSE Pb[c]
            hi == IF Pa[c] < Pb[c] THEN Pb[c] ELSE Pa[c]
        IN v.den > 0 /\ v.den * lo <= v.num[c] /\ v.num[c] <= v.den * hi

\* for every corner configuration, each edge used by the cell's triangle
\* list was interpolated for that cell and joins an inside corner to an
\* outside corner
EmittedEdgesAreCrossingEdges ==
    CellEmitted =>
        \A k \in DOMAIN cell.emitted :
            /\ cell.emitted[k] \in 0..11
            /\ cell.emitted[k] \in cell.interpolated
            /\ JoinsInsideToOutside(cell.emitted[k])

\* a cell with five triangles was emitted
FiveTrianglesEmitted == CellEmitted /\ Len(cell.emitted) = 15

\* C23: every vertex emitted by the mesh extractor lies on a cell edge whose
\* two corners are classified differently: each edge used by the cell's
\* triangle list was interpolated for that cell, joins an inside corner to an
\* outside corner, and carries its vertex between its two corners.
C23_EmittedVerticesOnCrossingEdges ==
    CellEmitted =>
        \A k \in DOMAIN cell.emitted :
            /\ cell.emitted[k] \in cell.interpolated
            /\ JoinsInsideToOutside(cell.emitted[k])
            /\ VertexOnCellEdge(cell.emitted[k])

\* FMarchingCubes::ProcessGridCells alone emits every vertex on a crossing edge
MarchingCubesVerticesOnCrossingEdges ==
    (CellEmitted /\ cell.extractor = "FMarchingCubes") =>
        \A k \in DOMAIN cell.emitted :
            /\ cell.emitted[k] \in cell.interpolated
            /\ JoinsInsideToOutside(cell.emitted[k])
            /\ VertexOnCellEdge(cell.emitted[k])

\* a skipped cell has all corners on one side
SkippedCellsAreUniform ==
    (cell.done /\ cell.skipped) =>
        \A c \in 0..7 : ClassifiedInside(c) = ClassifiedInside(0)

(***************************************************************************)
(* Progress of the chunk lifecycle (specification SpecChunkLive)           *)
(***************************************************************************)

\* chunk id exists and is in state s
ChunkInState(id, s) == Chunks[id] # NoChunk /\ Chunks[id].State = s

\* C24: under repeated calls of FChunkManager::Update a chunk that was
\* created (state Requested) and stays wanted eventually reaches Generating,
\* then Ready, then Visible: it rests in none of Requested, Generating and
\* Ready for ever.
C24_LifecycleDrivenToCompletion ==
    \A id \in ChunkIds :
        /\ ChunkInState(id, "Requested") ~> ~ChunkInState(id, "Requested")
        /\ ChunkInState(id, "Generating") ~> ~ChunkInState(id, "Generating")
        /\ ChunkInState(id, "Ready") ~> ~ChunkInState(id, "Ready")

\* a call of Update
UpdateStep == lastCall'.op = "Update"

\* what Update does: it changes the state of no chunk
UpdateChangesNoChunk == [][UpdateStep => Chunks' = Chunks]_vars

(***************************************************************************)
(* Properties of the streaming controller's bookkeeping (specification     *)
(* Spec)                                                                   *)
(***************************************************************************)

\* generation tasks that were started and whose completion callback has not
\* run yet, their actor living or destroyed
TasksInFlight == Cardinality(tasks) + deadTasks

\* C25: after any sequence of frames, LOD changes, chunk destructions and
\* task completions the counter ActiveGenerationTasks equals the number of
\* generation tasks started whose completion callback has not yet run, and
\* it is never negative.
C25_CounterEqualsTasksInFlight ==
    /\ ActiveGenerationTasks >= 0
    /\ ActiveGenerationTasks = TasksInFlight

\* the counter is never negative
CounterNeverNegative == ActiveGenerationTasks >= 0

\* the counter stays above the tasks in flight after every one has completed:
\* it counts a task whose callback will never decrement it
CounterLeaked == TasksInFlight = 0 /\ ActiveGenerationTasks > 0

\* a task is in flight that the counter does not count
TaskNotCounted == TasksInFlight > ActiveGenerationTasks

(***************************************************************************)
(* The streaming controller with a scheduler: does spawning make progress? *)
(***************************************************************************)

\* the steps of a planet that is generated once, by BeginPlay
NextPlanetStreaming ==
    \/ \E x \in ObserverXs : MoveObserver(x)
    \/ UpdateLODAndStreaming
    \/ ProcessSpawnQueueIteration
    \/ ProcessSpawnQueueReturn
    \/ ProcessMeshUpdateQueueIteration
    \/ ProcessMeshUpdateQueueReturn
    \/ \E t \in tasks : GenerationWorker(t)
    \/ \E t \in tasks : GenerationCallback(t)
    \/ GenerationCallbackDead

\* ProcessSpawnQueue, an iteration in which SpawnActorDeferred returned an
\* actor and GenerateChunkAsync was called on it
SpawnSucceeds ==
    ProcessSpawnQueueIteration /\ ActiveGenerationTasks' = ActiveGenerationTasks + 1

\* Tick runs every frame and each of its calls runs to its end; the thread
\* pool runs every lambda given to it; the game thread runs every posted
\* callback between two frames; SpawnActorDeferred does not fail for ever
SchedulerRuns ==
    /\ WF_vars(UpdateLODAndStreaming)
    /\ WF_vars(ProcessSpawnQueueIteration)
    /\ WF_vars(ProcessSpawnQueueReturn)
    /\ WF_vars(ProcessMeshUpdateQueueIteration)
    /\ WF_vars(ProcessMeshUpdateQueueReturn)
    /\ WF_vars(\E t \in tasks : GenerationWorker(t))
    /\ SF_vars(\E t \in tasks : GenerationCallback(t))
    /\ SF_vars(GenerationCallbackDead)
    /\ SF_vars(SpawnSucceeds)

SpecLive == Init /\ [][NextPlanetStreaming]_vars /\ SchedulerRuns

\* the observer at x sees chunks at all, and slot i is within the last tier
InLODRange(i, x) ==
    /\ DistToSurface(x) < RenderDistance
    /\ \E l \in 1..NumLODs : DistSq(i, x) < Square(LODSettings[l].Distance)

\* slot i has an active chunk with a mesh section
ChunkUploaded(i) ==
    /\ ChunkInfos[i].ActiveChunk # NoActor
    /\ actors[i].Section # NoSection

\* C26: spawning is never permanently stalled: whenever the observer ends up
\* staying at one position inside render distance (and frames keep running),
\* every slot within LOD range of that position gets, again and again from any
\* point on, an active chunk whose mesh has been uploaded.
C26_SpawningNeverStalls ==
    \A x \in ObserverXs : \A i \in Slots :
        InLODRange(i, x) =>
            ((<>[](observer = x) /\ []<>(phase = "spawn")) => []<>ChunkUploaded(i))

\* the counter is at the configured limit although no task is left, and a
\* slot waits in the spawn queue
Stalled ==
    /\ tasks = {}
    /\ deadTasks = 0
    /\ ActiveGenerationTasks >= Config.MaxConcurrentChunkGenerations
    /\ Len(ChunkSpawnQueue) > 0

(***************************************************************************)
(* Properties of the mesh-ready queue                                      *)
(***************************************************************************)

\* the living chunk of slot i has two entries in MeshUpdateQueue
QueuedTwice(i) ==
    \E j, k \in 1..Len(MeshUpdateQueue) :
        j # k /\ MeshUpdateQueue[j] = i /\ MeshUpdateQueue[k] = i

\* the next iteration of ProcessMeshUpdateQueue uploads the chunk of a slot
\* with terrain whose GeneratedMeshData arrays are empty
UploadOfReleasedBuffers ==
    /\ phase = "upload"
    /\ UploadLoopCondition
    /\ PopValue(MeshUpdateQueue) # DeadRef
    /\ PopValue(MeshUpdateQueue) \notin EmptyMeshSlots
    /\ actors[PopValue(MeshUpdateQueue)].GeneratedMeshData = EmptyMesh

\* C27: a chunk is in the mesh-ready queue at most once at any time, and no
\* upload runs on mesh buffers that an earlier upload of the same chunk has
\* already released.
C27_QueuedAtMostOnce ==
    /\ \A i \in Slots : ~QueuedTwice(i)
    /\ ~UploadOfReleasedBuffers

\* some slot is in the queue twice
QueuedTwiceReached == \E i \in Slots : QueuedTwice(i)

\* the rendered mesh of a living chunk with terrain is the empty one
RenderedMeshEmptied ==
    \E i \in Slots \ EmptyMeshSlots : actors[i].alive /\ actors[i].Section = EmptyMesh

(***************************************************************************)
(* Properties of the spawn queue and the per-slot records                  *)
(***************************************************************************)

\* the index of slot i is an element of ChunkSpawnQueue
InSpawnQueue(i) == \E k \in 1..Len(ChunkSpawnQueue) : ChunkSpawnQueue[k] = i

\* C28: after any sequence of frames and clears, the bPendingSpawn flag of a
\* slot is true exactly if the slot's index is in the spawn queue, no index is
\* in the spawn queue more than once, and a slot with an active chunk is never
\* in the queue.
C28_PendingFlagMatchesQueue ==
    /\ \A i \in Slots : ChunkInfos[i].bPendingSpawn <=> InSpawnQueue(i)
    /\ \A j, k \in 1..Len(ChunkSpawnQueue) :
            j # k => ChunkSpawnQueue[j] # ChunkSpawnQueue[k]
    /\ \A i \in Slots : ChunkInfos[i].ActiveChunk # NoActor => ~InSpawnQueue(i)

\* between two frames one slot has a chunk, spawned from the queue, while
\* another slot is still waiting in the queue with its flag set
C28_Witness ==
    /\ phase = "idle"
    /\ \E i \in Slots : ChunkInfos[i].ActiveChunk # NoActor
    /\ \E i \in Slots : ChunkInfos[i].bPendingSpawn /\ InSpawnQueue(i)

\* a clear or a cull has emptied the queue while tasks of destroyed chunks
\* were running, and slots have been queued again since
QueuedAgainAfterClear ==
    /\ deadTasks > 0
    /\ Len(ChunkSpawnQueue) > 0

\* level is an index of the LODSettings table
ValidLODIndex(level) == level \in 0..(NumLODs - 1)

\* C29: whenever a chunk is spawned from the spawn queue or the LOD of an
\* existing chunk is compared or switched, the level used is a valid index
\* into the LOD table: a slot that is queued for spawn or has an active chunk
\* never holds level -1 (or any level outside the table), and neither does a
\* living chunk actor.
C29_LODLevelValidWhereUsed ==
    /\ \A i \in Slots :
          (InSpawnQueue(i) \/ ChunkInfos[i].ActiveChunk # NoActor)
              => ValidLODIndex(ChunkInfos[i].LODLevel)
    /\ \A i \in Slots : actors[i].alive => ValidLODIndex(actors[i].CurrentLOD)

\* a chunk spawned from the queue has had its LOD switched since, while
\* another slot waits in the spawn queue with its level set
C29_Witness ==
    /\ \E i \in Slots : /\ ChunkInfos[i].ActiveChunk # NoActor
                        /\ actors[i].requests > 1
                        /\ ValidLODIndex(ChunkInfos[i].LODLevel)
    /\ \E j \in Slots : InSpawnQueue(j) /\ ValidLODIndex(ChunkInfos[j].LODLevel)

\* slots hold level -1 after a cull while not queued and without chunk
LevelResetByCull ==
    /\ \A i \in Slots : ChunkInfos[i].LODLevel = -1
    /\ deadTasks > 0

(***************************************************************************)
(* Properties of the neighbour lookup                                      *)
(***************************************************************************)

\* the cell DeltaX, DeltaY away from the id of the call lies outside the
\* 2^LOD x 2^LOD grid of the face
NeighborOutOfBounds ==
    \/ neighbor.Id.X + neighbor.DeltaX < 0
    \/ neighbor.Id.X + neighbor.DeltaX > 2 ^ neighbor.Id.LOD - 1
    \/ neighbor.Id.Y + neighbor.DeltaY < 0
    \/ neighbor.Id.Y + neighbor.DeltaY > 2 ^ neighbor.Id.LOD - 1

\* C30: GetNeighbor returns an invalid id for an out-of-bounds neighbour:
\* whenever the shifted coordinate falls outside [0, 2^LOD - 1] on either axis,
\* the returned id fails IsValid(), so it cannot be mistaken for the id of a
\* real chunk.
C30_OutOfBoundsNeighborIsInvalid ==
    (neighbor.done /\ NeighborOutOfBounds) => ~FChunkIdIsValid(neighbor.result)

\* the id returned for an out-of-bounds neighbour is the id of the one chunk
\* of face +X at LOD 0
OutOfBoundsNeighborIsRootOfFaceZero ==
    (neighbor.done /\ NeighborOutOfBounds) =>
        /\ neighbor.result \in GridChunkIds
        /\ neighbor.result = FChunkId(0, 0, 0, 0, 0)

\* an in-bounds neighbour is the id shifted by the deltas, on the same face and
\* at the same LOD
InBoundsNeighborIsShifted ==
    (neighbor.done /\ ~NeighborOutOfBounds) =>
        /\ neighbor.result.CubeFace = neighbor.Id.CubeFace
        /\ neighbor.result.X = neighbor.Id.X + neighbor.DeltaX
        /\ neighbor.result.Y = neighbor.Id.Y + neighbor.DeltaY
        /\ neighbor.result.LOD = neighbor.Id.LOD
        /\ FChunkIdIsValid(neighbor.result)

\* a chunk at the edge of face -Z was asked for the neighbour across the edge
NeighborAcrossFaceEdge ==
    /\ neighbor.done
    /\ NeighborOutOfBounds
    /\ neighbor.Id.CubeFace = 5
    /\ neighbor.Id.LOD = MaxNeighborLOD

=============================================================================
